---- MODULE Spec2Model ----
(***************************************************************************)
(* A model of the IblalORM core: the transactional handle and the          *)
(* transaction() wrapper (src/src/transactions/TransactionManager.ts), the *)
(* UPDATE / DELETE builders of the repository (src/src/query/Table.ts) and *)
(* the batch relation loader (src/src/query/RelationLoader.ts).            *)
(*                                                                         *)
(* Each component has its own specification over the shared variables:     *)
(*   SpecHandle  a TransactionClient driven directly by a caller           *)
(*   SpecTrx     transaction(callback), the callback driving the handle    *)
(*   SpecMut     Table.update(...) / Table.delete() builders               *)
(*   SpecRel     RelationLoader.loadRelations(records, relationNames)      *)
(*   SpecQB      QueryBuilder chaining and clone()                         *)
(*   SpecSQL     toSQL() rendering of drawn builders                       *)
(*   SpecMig     the migration runner (runMigration, pending files)        *)
(*   SpecExec    QueryBuilder.exec / first / count over DbAdapter.query    *)
(*   SpecTbl     Table.insertMany and the by-id calls                      *)
(*   SpecName    camelToSnake / snakeToCamel on drawn field names          *)
(*   SpecFrame   one public QueryBuilder call on a drawn builder           *)
(*   SpecOverlap handle calls issued without awaiting the previous one     *)
(***************************************************************************)
EXTENDS Integers, Sequences, FiniteSets, TLC

VARIABLES
    \* ---- TransactionClient / transaction() ----
    isCompleted,   \* TransactionClient.isCompleted
    sent,          \* statements sent on the dedicated connection, with outcome
    released,      \* number of client.release() calls
    calls,         \* number of handle-method calls made by the caller / callback
    lastOp,        \* the handle method called last ("none" before any call)
    lastRes,       \* how that call settled: Ok or the error it rejected with
    pc,            \* position of transaction() ("direct": handle used directly)
    acquired,      \* adapter.getClient() resolved with a connection
    issued,        \* sql passed to the query() calls made so far, in call order
    used,          \* handle methods called so far on the handle
    cbValue,       \* value the callback returned (None if it did not return)
    thrown,        \* error the callback threw (None if it did not throw)
    caught,        \* the `error` bound by the catch clause of transaction()
    pending,       \* settlement decided by try/catch, delivered after finally
    outcome        \* settlement of the promise returned by transaction()

trxVars == <<isCompleted, sent, released, calls, lastOp, lastRes, pc, acquired,
             issued, used, cbValue, thrown, caught, pending, outcome>>

VARIABLES
    \* ---- Table / UpdateBuilder / DeleteBuilder ----
    autoFields,    \* Table.autoFields
    builder,       \* the builder in hand: kind, tableName, data, whereConditions
    execs,         \* number of exec() calls made
    execRes,       \* how the last exec() settled
    gwCount,       \* number of statements that reached adapter.query
    gwLast         \* the statement that reached adapter.query last

mutVars == <<autoFields, builder, execs, execRes, gwCount, gwLast>>

VARIABLES
    \* ---- RelationLoader.loadRelations ----
    records,       \* the records passed in (mutated in place)
    relationNames, \* the requested relationship names
    idx,           \* index in relationNames of the loop iteration
    relPc,         \* "start", "loop", "await" (adapter.query pending), "done"
    queries,       \* queries sent to adapter.query, each with its iteration
    warnings,      \* names console.warn was called for
    relOutcome,    \* "pending", "resolved" or "rejected"
    rowsReturned,  \* number of rows the database has returned so far
    lastRows       \* result.rows of the latest resolved query, with its iteration

relVars == <<records, relationNames, idx, relPc, queries, warnings, relOutcome,
             rowsReturned, lastRows>>

VARIABLES
    \* ---- QueryBuilder ----
    builders,      \* the QueryBuilder objects created so far
    arrays,        \* the arrays those objects hold, by reference
    lineage,       \* for each builder, the call that returned it
    rendered       \* the value returned by toSQL()

qbVars == <<builders, arrays, lineage, rendered>>

VARIABLES
    \* ---- MigrationManager ----
    dir,           \* the file names in the migrations directory
    db,            \* the database: tracking table, recorded names, applied scripts
    runs           \* the runAllPending executions: position and locals of each

migVars == <<dir, db, runs>>

VARIABLES
    \* ---- DbAdapter.query, QueryBuilder.exec/first/count, Table by-id calls ----
    opCall,        \* the public method called: name and receiver ("none" before)
    opRes,         \* how that call settled, "pending" while it awaits
    adapterLog     \* the adapter.query calls made, with the driver invocations

gwVars == <<opCall, opRes, adapterLog>>

VARIABLES
    \* ---- overlapping calls on one TransactionClient ----
    inflight       \* the handle calls awaiting their statement, oldest first

ovVars == <<inflight>>

VARIABLES
    \* ---- naming conversion of one field ----
    fieldName,     \* the field name the caller uses
    storageName,   \* the column name rendered into the SQL text
    readName,      \* the key of the transformed row for that column
    namePc         \* "named", "rendered", "read"

nameVars == <<fieldName, storageName, readName, namePc>>

vars == <<trxVars, mutVars, relVars, qbVars, migVars, gwVars, nameVars, ovVars>>

\* ------------------------------------------------------------------ bounds
\* Number of handle-method calls a caller / callback makes.
MaxCalls == 3

\* ------------------------------------------------------------------ values
None == [kind |-> "none", at |-> 0]
Ok == [kind |-> "ok", at |-> 0]

\* The rejection of the driver for the n-th statement sent on the connection.
DriverError(n) == [kind |-> "driver", at |-> n]

\* new Error("Transaction has already been completed"), thrown by call n.
CompletedError(n) == [kind |-> "Transaction has already been completed", at |-> n]

\* An error created by the callback itself (throw new Error(...)).
CallbackError == [kind |-> "callback", at |-> 0]

IsError(r) == r.kind \notin {"ok", "none"}

\* SQL texts a caller passes to query().
Sqls == {"INSERT", "SELECT"}

\* Values a callback returns.
Values == {"v1", "v2"}

Stmt(sql, ok) == [sql |-> sql, ok |-> ok]

Resolved(v) == [kind |-> "resolved", with |-> v]
Rejected(e) == [kind |-> "rejected", with |-> e]
Pending == [kind |-> "pending", with |-> None]

\* --------------------------------------------------- TransactionClient
\* Each method is given as its effect on the handle when the driver answers
\* the statement (if one is sent) with success (ok) or failure (~ok):
\* the connection log, the isCompleted flag and the settlement of the call.

\* TransactionClient.query(sql, params)
query(sql, ok) ==
    IF isCompleted
    THEN [sent |-> sent, isCompleted |-> isCompleted,
          res |-> CompletedError(calls + 1)]
    ELSE [sent |-> Append(sent, Stmt(sql, ok)), isCompleted |-> isCompleted,
          res |-> IF ok THEN Ok ELSE DriverError(Len(sent) + 1)]

\* commit() without the isCompleted guard
commit_NoGuard(ok) ==
    [sent |-> Append(sent, Stmt("COMMIT", ok)),
     isCompleted |-> IF ok THEN TRUE ELSE isCompleted,
     res |-> IF ok THEN Ok ELSE DriverError(Len(sent) + 1)]

\* a commit() that marks the handle completed before the statement settles
commit_CompletesFirst(ok) ==
    IF isCompleted
    THEN [sent |-> sent, isCompleted |-> isCompleted,
          res |-> CompletedError(calls + 1)]
    ELSE [sent |-> Append(sent, Stmt("COMMIT", ok)),
          isCompleted |-> TRUE,
          res |-> IF ok THEN Ok ELSE DriverError(Len(sent) + 1)]

\* TransactionClient.commit()
commit(ok) ==
    IF isCompleted
    THEN [sent |-> sent, isCompleted |-> isCompleted,
          res |-> CompletedError(calls + 1)]
    ELSE [sent |-> Append(sent, Stmt("COMMIT", ok)),
          isCompleted |-> IF ok THEN TRUE ELSE isCompleted,
          res |-> IF ok THEN Ok ELSE DriverError(Len(sent) + 1)]

\* rollback() without the isCompleted guard
rollback_NoGuard(ok) ==
    [sent |-> Append(sent, Stmt("ROLLBACK", ok)),
     isCompleted |-> IF ok THEN TRUE ELSE isCompleted,
     res |-> IF ok THEN Ok ELSE DriverError(Len(sent) + 1)]

\* TransactionClient.rollback()
rollback(ok) ==
    IF isCompleted
    THEN [sent |-> sent, isCompleted |-> isCompleted, res |-> Ok]
    ELSE [sent |-> Append(sent, Stmt("ROLLBACK", ok)),
          isCompleted |-> IF ok THEN TRUE ELSE isCompleted,
          res |-> IF ok THEN Ok ELSE DriverError(Len(sent) + 1)]

\* TransactionClient.release()
release == released + 1

\* TransactionClient.isActive
isActive == ~isCompleted

\* A caller (pc = "direct") or the callback of transaction() (pc = "callback")
\* calls a handle method and awaits it.
Caller == pc \in {"direct", "callback"}

Called(op, eff) ==
    /\ sent' = eff.sent
    /\ isCompleted' = eff.isCompleted
    /\ lastRes' = eff.res
    /\ lastOp' = op
    /\ calls' = calls + 1
    /\ used' = used \cup {op}

CallQuery ==
    /\ Caller /\ calls < MaxCalls
    /\ \E sql \in Sqls, ok \in BOOLEAN :
          /\ Called("query", query(sql, ok))
          /\ issued' = Append(issued, sql)
    /\ UNCHANGED <<released, pc, acquired, cbValue, thrown, caught, pending, outcome>>
    /\ UNCHANGED <<mutVars, relVars, qbVars, migVars, gwVars, nameVars, ovVars>>

CallCommit ==
    /\ Caller /\ calls < MaxCalls
    /\ \E ok \in BOOLEAN : Called("commit", commit(ok))
    /\ UNCHANGED <<released, pc, acquired, issued, cbValue, thrown, caught,
                   pending, outcome>>
    /\ UNCHANGED <<mutVars, relVars, qbVars, migVars, gwVars, nameVars, ovVars>>

CallRollback ==
    /\ Caller /\ calls < MaxCalls
    /\ \E ok \in BOOLEAN : Called("rollback", rollback(ok))
    /\ UNCHANGED <<released, pc, acquired, issued, cbValue, thrown, caught,
                   pending, outcome>>
    /\ UNCHANGED <<mutVars, relVars, qbVars, migVars, gwVars, nameVars, ovVars>>

\* ------------------------------------------------ overlapping handle calls
\* A handle method runs up to its await when it is called: the isCompleted
\* check and client.query(...), which puts the statement on the connection.
\* The rest of the method runs when the driver has answered the statement;
\* the driver answers the statements of one connection in the order sent.

\* the caller calls a method and does not await it
Issue(op, sql) ==
    /\ pc = "overlap"
    /\ calls < MaxCalls
    /\ calls' = calls + 1
    /\ lastOp' = op
    /\ used' = used \cup {op}
    /\ IF isCompleted
       THEN /\ lastRes' = IF op = "rollback" THEN Ok ELSE CompletedError(calls + 1)
            /\ UNCHANGED <<sent, inflight>>
       ELSE /\ \E ok \in BOOLEAN : sent' = Append(sent, Stmt(sql, ok))
            /\ inflight' = Append(inflight, [op |-> op, at |-> Len(sent) + 1])
            /\ UNCHANGED lastRes
    /\ UNCHANGED <<isCompleted, released, pc, acquired, cbValue, thrown, caught,
                   pending, outcome>>
    /\ UNCHANGED <<mutVars, relVars, qbVars, migVars, gwVars, nameVars>>

\* trx.query(sql) is called
IssueQuery == \E sql \in Sqls : Issue("query", sql) /\ issued' = Append(issued, sql)

\* trx.commit() is called
IssueCommit == Issue("commit", "COMMIT") /\ UNCHANGED issued

\* trx.rollback() is called
IssueRollback == Issue("rollback", "ROLLBACK") /\ UNCHANGED issued

\* the driver answers the oldest statement and the method that sent it goes
\* on after its await: commit() and rollback() set isCompleted when the
\* statement succeeded, a failure rejects the call
AwaitSettles ==
    /\ pc = "overlap"
    /\ inflight # <<>>
    /\ LET head == Head(inflight)
           statement == sent[head.at]
       IN /\ isCompleted' = IF head.op \in {"commit", "rollback"} /\ statement.ok
                            THEN TRUE ELSE isCompleted
          /\ lastRes' = IF statement.ok THEN Ok ELSE DriverError(head.at)
    /\ inflight' = Tail(inflight)
    /\ UNCHANGED <<sent, released, calls, lastOp, pc, acquired, issued, used,
                   cbValue, thrown, caught, pending, outcome>>
    /\ UNCHANGED <<mutVars, relVars, qbVars, migVars, gwVars, nameVars>>

\* ------------------------------------------------------- transaction()
\* const client = await adapter.getClient(); const trx = new TransactionClient(client)
GetClient ==
    /\ pc = "start"
    /\ \E ok \in BOOLEAN :
          IF ok
          THEN /\ acquired' = TRUE
               /\ pc' = "begin"
               /\ outcome' = outcome
          ELSE /\ acquired' = FALSE
               /\ pc' = "done"
               /\ outcome' = Rejected([kind |-> "Failed to get database client", at |-> 0])
    /\ UNCHANGED <<isCompleted, sent, released, calls, lastOp, lastRes, issued,
                   used, cbValue, thrown, caught, pending>>
    /\ UNCHANGED <<mutVars, relVars, qbVars, migVars, gwVars, nameVars, ovVars>>

\* await client.query("BEGIN")
Begin ==
    /\ pc = "begin"
    /\ \E ok \in BOOLEAN :
          /\ sent' = Append(sent, Stmt("BEGIN", ok))
          /\ IF ok
             THEN pc' = "callback" /\ caught' = caught
             ELSE pc' = "catch" /\ caught' = DriverError(Len(sent) + 1)
    /\ UNCHANGED <<isCompleted, released, calls, lastOp, lastRes, acquired, issued,
                   used, cbValue, thrown, pending, outcome>>
    /\ UNCHANGED <<mutVars, relVars, qbVars, migVars, gwVars, nameVars, ovVars>>

\* const result = await callback(trx): the callback returns a value
CallbackReturns ==
    /\ pc = "callback"
    /\ \E v \in Values : cbValue' = v
    /\ pc' = "commit"
    /\ UNCHANGED <<isCompleted, sent, released, calls, lastOp, lastRes, acquired,
                   issued, used, thrown, caught, pending, outcome>>
    /\ UNCHANGED <<mutVars, relVars, qbVars, migVars, gwVars, nameVars, ovVars>>

\* ... or throws: an error of its own, or the error of its last handle call
CallbackThrows ==
    /\ pc = "callback"
    /\ \E e \in {CallbackError} \cup (IF IsError(lastRes) THEN {lastRes} ELSE {}) :
          /\ thrown' = e
          /\ caught' = e
    /\ pc' = "catch"
    /\ UNCHANGED <<isCompleted, sent, released, calls, lastOp, lastRes, acquired,
                   issued, used, cbValue, pending, outcome>>
    /\ UNCHANGED <<mutVars, relVars, qbVars, migVars, gwVars, nameVars, ovVars>>

\* await trx.commit() without `return result`
Commit_NoReturn ==
    /\ pc = "commit"
    /\ \E ok \in BOOLEAN :
          LET eff == commit(ok) IN
          /\ sent' = eff.sent
          /\ isCompleted' = eff.isCompleted
          /\ IF IsError(eff.res)
             THEN pc' = "catch" /\ caught' = eff.res /\ pending' = pending
             ELSE pc' = "finally" /\ caught' = caught /\ pending' = Resolved("none")
    /\ UNCHANGED <<released, calls, lastOp, lastRes, acquired, issued, used,
                   cbValue, thrown, outcome>>
    /\ UNCHANGED <<mutVars, relVars, qbVars, migVars, gwVars, nameVars, ovVars>>

\* await trx.commit(); return result
Commit ==
    /\ pc = "commit"
    /\ \E ok \in BOOLEAN :
          LET eff == commit(ok) IN
          /\ sent' = eff.sent
          /\ isCompleted' = eff.isCompleted
          /\ IF IsError(eff.res)
             THEN pc' = "catch" /\ caught' = eff.res /\ pending' = pending
             ELSE pc' = "finally" /\ caught' = caught /\ pending' = Resolved(cbValue)
    /\ UNCHANGED <<released, calls, lastOp, lastRes, acquired, issued, used,
                   cbValue, thrown, outcome>>
    /\ UNCHANGED <<mutVars, relVars, qbVars, migVars, gwVars, nameVars, ovVars>>

\* catch (error) { throw error; } : the rollback left out
Catch_NoRollback ==
    /\ pc = "catch"
    /\ pending' = Rejected(caught)
    /\ pc' = "finally"
    /\ UNCHANGED <<isCompleted, sent, released, calls, lastOp, lastRes, acquired,
                   issued, used, cbValue, thrown, caught, outcome>>
    /\ UNCHANGED <<mutVars, relVars, qbVars, migVars, gwVars, nameVars, ovVars>>

\* catch (error) { await trx.rollback(); throw error; }
Catch ==
    /\ pc = "catch"
    /\ \E ok \in BOOLEAN :
          LET eff == rollback(ok) IN
          /\ sent' = eff.sent
          /\ isCompleted' = eff.isCompleted
          /\ pending' = IF IsError(eff.res) THEN Rejected(eff.res)
                                            ELSE Rejected(caught)
    /\ pc' = "finally"
    /\ UNCHANGED <<released, calls, lastOp, lastRes, acquired, issued, used,
                   cbValue, thrown, caught, outcome>>
    /\ UNCHANGED <<mutVars, relVars, qbVars, migVars, gwVars, nameVars, ovVars>>

\* release() placed after the try/catch instead of in a finally clause: a
\* rejection leaves the function without releasing
Finally_OnlyOnSuccess ==
    /\ pc = "finally"
    /\ released' = IF pending.kind = "resolved" THEN release ELSE released
    /\ outcome' = pending
    /\ pc' = "done"
    /\ UNCHANGED <<isCompleted, sent, calls, lastOp, lastRes, acquired, issued,
                   used, cbValue, thrown, caught, pending>>
    /\ UNCHANGED <<mutVars, relVars, qbVars, migVars, gwVars, nameVars, ovVars>>

\* finally { trx.release(); }
Finally ==
    /\ pc = "finally"
    /\ released' = release
    /\ outcome' = pending
    /\ pc' = "done"
    /\ UNCHANGED <<isCompleted, sent, calls, lastOp, lastRes, acquired, issued,
                   used, cbValue, thrown, caught, pending>>
    /\ UNCHANGED <<mutVars, relVars, qbVars, migVars, gwVars, nameVars, ovVars>>

\* ------------------------------------------------------------ naming
\* Field and column names are sequences of characters.
UpperCase == <<"A","B","C","D","E","F","G","H","I","J","K","L","M",
               "N","O","P","Q","R","S","T","U","V","W","X","Y","Z">>
LowerCase == <<"a","b","c","d","e","f","g","h","i","j","k","l","m",
               "n","o","p","q","r","s","t","u","v","w","x","y","z">>

UpperCaseLetters == {UpperCase[i] : i \in 1..26}
LowerCaseLetters == {LowerCase[i] : i \in 1..26}
IsUpper(c) == c \in UpperCaseLetters
IsLower(c) == c \in LowerCaseLetters
toLowerCase(c) == IF IsUpper(c) THEN LowerCase[CHOOSE i \in 1..26 : UpperCase[i] = c] ELSE c
toUpperCase(c) == IF IsLower(c) THEN UpperCase[CHOOSE i \in 1..26 : LowerCase[i] = c] ELSE c

\* a conversion that lower-cases the capitals without marking them
RECURSIVE camelToSnake_LowerOnly(_)
camelToSnake_LowerOnly(str) ==
    IF str = <<>> THEN <<>>
    ELSE <<toLowerCase(Head(str))>> \o camelToSnake_LowerOnly(Tail(str))

\* str.replace(/[A-Z]/g, (letter) => `_${letter.toLowerCase()}`)
RECURSIVE camelToSnake(_)
camelToSnake(str) ==
    IF str = <<>> THEN <<>>
    ELSE (IF IsUpper(Head(str)) THEN <<"_", toLowerCase(Head(str))>> ELSE <<Head(str)>>)
         \o camelToSnake(Tail(str))

\* key.replace(/_([a-z])/g, (_, letter) => letter.toUpperCase())
RECURSIVE snakeToCamel(_)
snakeToCamel(str) ==
    IF str = <<>> THEN <<>>
    ELSE IF Head(str) = "_" /\ Len(str) >= 2 /\ IsLower(str[2])
         THEN <<toUpperCase(str[2])>> \o snakeToCamel(Tail(Tail(str)))
         ELSE <<Head(str)>> \o snakeToCamel(Tail(str))

N_id == <<"i", "d">>
N_createdAt == <<"c", "r", "e", "a", "t", "e", "d", "A", "t">>
N_updatedAt == <<"u", "p", "d", "a", "t", "e", "d", "A", "t">>
N_name == <<"n", "a", "m", "e">>
N_tenantId == <<"t", "e", "n", "a", "n", "t", "I", "d">>
N_updated_at == <<"u", "p", "d", "a", "t", "e", "d", "_", "a", "t">>

\* --------------------------------------------- Table / UpdateBuilder / DeleteBuilder
\* bounds of the repository model
MaxFields == 2
MaxWhere == 2
MaxExecs == 2

\* new Set(["id", "createdAt", "updatedAt", ...autoFields])
DefaultAutoFields == {N_id, N_createdAt, N_updatedAt}

\* auto fields a Table may be configured with, keys of a data payload, values
CustomAutoFields == {N_tenantId}
DataKeys == {N_id, N_name, N_tenantId}
DataValues == {"a"}
WhereColumns == {N_id}
WhereValues == {1}
TableName == "users"

\* data payloads: objects, as their entries in insertion order (distinct keys)
BoundedSeq(S, n) == UNION {[1..k -> S] : k \in 0..n}
Payloads ==
    {d \in BoundedSeq(DataKeys \X DataValues, MaxFields) :
        \A i, j \in 1..Len(d) : i # j => d[i][1] # d[j][1]}

\* what the gateway answers to a statement: a failure, or a number of rows
\* (none matched, one matched)
RowCounts == {0, 1}
DriverAnswers ==
    {[ok |-> FALSE, rows |-> 0]} \cup {[ok |-> TRUE, rows |-> n] : n \in RowCounts}

NoBuilder == [kind |-> "none", tableName |-> TableName, data |-> <<>>,
              whereConditions |-> <<>>]
NoStatement == [op |-> "none", table |-> "", set |-> <<>>, where |-> <<>>,
                values |-> <<>>]
NoResult == [kind |-> "none", message |-> "", n |-> 0]
Failure(msg) == [kind |-> "error", message |-> msg, n |-> 0]
RowsResult(n) == [kind |-> "rows", message |-> "", n |-> n]
CountResult(n) == [kind |-> "count", message |-> "", n |-> n]

WhereRequiredUpdate == "UPDATE requires at least one WHERE condition for safety"
WhereRequiredDelete == "DELETE requires at least one WHERE condition for safety"
NoValidFields == "No valid fields to update"
QueryFailed == "Database query failed: "

\* Object.entries(this.data).filter(([key]) => !this.autoFields.has(key))
entries(data) ==
    LET keep(e) == e[1] \notin autoFields IN SelectSeq(data, keep)

\* the WHERE clauses of both builders: "column" = $paramIndex, from offset + 1
whereClauses(conds, offset) ==
    [i \in 1..Len(conds) |->
        [column |-> camelToSnake(conds[i].column), param |-> offset + i]]

whereValues(conds) == [i \in 1..Len(conds) |-> conds[i].value]

\* UpdateBuilder.exec() without the whereConditions guard
UpdateBuilder_exec_NoWhereGuard(b, answer) ==
    LET ents == entries(b.data) IN
    IF Len(ents) = 0
    THEN [stmt |-> NoStatement, res |-> Failure(NoValidFields)]
    ELSE [stmt |-> [op |-> "UPDATE", table |-> b.tableName,
                    set |-> [i \in 1..Len(ents) |->
                               [column |-> camelToSnake(ents[i][1]), param |-> i]]
                            \o <<[column |-> N_updated_at, param |-> 0]>>,
                    where |-> whereClauses(b.whereConditions, Len(ents)),
                    values |-> [i \in 1..Len(ents) |-> ents[i][2]]
                               \o whereValues(b.whereConditions)],
          res |-> IF ~answer.ok THEN Failure(QueryFailed)
                                     ELSE RowsResult(answer.rows)]

\* UpdateBuilder.exec() without the empty-entries guard
UpdateBuilder_exec_NoFieldsGuard(b, answer) ==
    IF Len(b.whereConditions) = 0
    THEN [stmt |-> NoStatement, res |-> Failure(WhereRequiredUpdate)]
    ELSE LET ents == entries(b.data) IN
         [stmt |-> [op |-> "UPDATE", table |-> b.tableName,
                    set |-> [i \in 1..Len(ents) |->
                               [column |-> camelToSnake(ents[i][1]), param |-> i]]
                            \o <<[column |-> N_updated_at, param |-> 0]>>,
                    where |-> whereClauses(b.whereConditions, Len(ents)),
                    values |-> [i \in 1..Len(ents) |-> ents[i][2]]
                               \o whereValues(b.whereConditions)],
          res |-> IF ~answer.ok THEN Failure(QueryFailed)
                                     ELSE RowsResult(answer.rows)]

\* UpdateBuilder.exec(): the statement it sends (NoStatement if none) and how
\* it settles when the gateway answers `answer`.  A set clause with param 0 is
\* "updated_at" = CURRENT_TIMESTAMP.
UpdateBuilder_exec(b, answer) ==
    IF Len(b.whereConditions) = 0
    THEN [stmt |-> NoStatement, res |-> Failure(WhereRequiredUpdate)]
    ELSE LET ents == entries(b.data) IN
         IF Len(ents) = 0
         THEN [stmt |-> NoStatement, res |-> Failure(NoValidFields)]
         ELSE [stmt |-> [op |-> "UPDATE", table |-> b.tableName,
                         set |-> [i \in 1..Len(ents) |->
                                    [column |-> camelToSnake(ents[i][1]), param |-> i]]
                                 \o <<[column |-> N_updated_at, param |-> 0]>>,
                         where |-> whereClauses(b.whereConditions, Len(ents)),
                         values |-> [i \in 1..Len(ents) |-> ents[i][2]]
                                    \o whereValues(b.whereConditions)],
               res |-> IF ~answer.ok THEN Failure(QueryFailed)
                                          ELSE RowsResult(answer.rows)]

\* DeleteBuilder.exec(): result.rowCount || 0
DeleteBuilder_exec(b, answer) ==
    IF Len(b.whereConditions) = 0
    THEN [stmt |-> NoStatement, res |-> Failure(WhereRequiredDelete)]
    ELSE [stmt |-> [op |-> "DELETE", table |-> b.tableName, set |-> <<>>,
                    where |-> whereClauses(b.whereConditions, 0),
                    values |-> whereValues(b.whereConditions)],
          res |-> IF ~answer.ok THEN Failure(QueryFailed)
                                     ELSE CountResult(answer.rows)]

\* Table.update(data): a new UpdateBuilder
update ==
    /\ execs < MaxExecs
    /\ \E data \in Payloads :
          builder' = [kind |-> "update", tableName |-> TableName, data |-> data,
                      whereConditions |-> <<>>]
    /\ UNCHANGED <<autoFields, execs, execRes, gwCount, gwLast>>
    /\ UNCHANGED <<trxVars, relVars, qbVars, migVars, gwVars, nameVars, ovVars>>

\* Table.delete(): a new DeleteBuilder
delete ==
    /\ execs < MaxExecs
    /\ builder' = [kind |-> "delete", tableName |-> TableName, data |-> <<>>,
                   whereConditions |-> <<>>]
    /\ UNCHANGED <<autoFields, execs, execRes, gwCount, gwLast>>
    /\ UNCHANGED <<trxVars, relVars, qbVars, migVars, gwVars, nameVars, ovVars>>

\* UpdateBuilder.where / DeleteBuilder.where: push the condition, return this
where ==
    /\ execs < MaxExecs
    /\ builder.kind \in {"update", "delete"}
    /\ Len(builder.whereConditions) < MaxWhere
    /\ \E column \in WhereColumns, value \in WhereValues :
          builder' = [builder EXCEPT !.whereConditions =
                         Append(@, [column |-> column, value |-> value])]
    /\ UNCHANGED <<autoFields, execs, execRes, gwCount, gwLast>>
    /\ UNCHANGED <<trxVars, relVars, qbVars, migVars, gwVars, nameVars, ovVars>>

\* await builder.exec()
exec ==
    /\ builder.kind \in {"update", "delete"}
    /\ execs < MaxExecs
    /\ \E answer \in DriverAnswers :
          LET eff == IF builder.kind = "update"
                     THEN UpdateBuilder_exec(builder, answer)
                     ELSE DeleteBuilder_exec(builder, answer) IN
          /\ execRes' = eff.res
          /\ IF eff.stmt = NoStatement
             THEN gwCount' = gwCount /\ gwLast' = gwLast
             ELSE gwCount' = gwCount + 1 /\ gwLast' = eff.stmt
    /\ execs' = execs + 1
    /\ UNCHANGED <<autoFields, builder>>
    /\ UNCHANGED <<trxVars, relVars, qbVars, migVars, gwVars, nameVars, ovVars>>

\* ------------------------------------------------------ RelationLoader
\* bounds of the relation loader model: input records, requested names, and
\* rows the database returns in the course of one loadRelations
MaxRecords == 2
MaxNames == 2
MaxRelRows == 2

N_categoryId == <<"c", "a", "t", "e", "g", "o", "r", "y", "I", "d">>
N_category == <<"c", "a", "t", "e", "g", "o", "r", "y">>
N_posts == <<"p", "o", "s", "t", "s">>
N_profile == <<"p", "r", "o", "f", "i", "l", "e">>
N_tags == <<"t", "a", "g", "s">>
N_category_id == <<"c", "a", "t", "e", "g", "o", "r", "y", "_", "i", "d">>
N_author_id == <<"a", "u", "t", "h", "o", "r", "_", "i", "d">>
N_user_id == <<"u", "s", "e", "r", "_", "i", "d">>

\* JavaScript values held by records and rows
Undefined == [t |-> "undefined"]
Null == [t |-> "null"]
Num(n) == [t |-> "number", v |-> n]
Obj(o) == [t |-> "object", v |-> o]
Arr(s) == [t |-> "array", v |-> s]

\* record[field]: undefined when the property is absent
Get(record, field) == IF field \in DOMAIN record THEN record[field] ELSE Undefined

\* this.relationMeta: the relationship registry of the model
relationMeta ==
    (N_category :> [type |-> "belongsTo", targetTable |-> "categories",
                    sourceColumn |-> N_category_id, targetColumn |-> N_id])
    @@ (N_posts :> [type |-> "hasMany", targetTable |-> "posts",
                    sourceColumn |-> N_id, targetColumn |-> N_author_id])
    @@ (N_profile :> [type |-> "hasOne", targetTable |-> "profiles",
                      sourceColumn |-> N_id, targetColumn |-> N_user_id])

\* names a caller may request: the registered ones and an unknown one
RequestNames == {N_category, N_posts, N_profile, N_tags}

\* the lists of names passed to loadRelations: each name at most once
RequestLists ==
    {names \in BoundedSeq(RequestNames, MaxNames) :
        \A i, j \in 1..Len(names) : i # j => names[i] # names[j]}

\* key values of the input records, and the second column of a target row
KeyValues == {1, 2}
RowLabels == {1, 2}

\* an input record: its own fields (id absent when it was not selected,
\* categoryId null or 1; only the record with id 1 has a category); the
\* relationship fields are absent
InputRecords ==
    {(N_id :> i) @@ (N_categoryId :> c) :
        <<i, c>> \in (({Undefined} \cup {Num(k) : k \in KeyValues}) \X {Null, Num(1)})
                     \ {<<Undefined, Num(1)>>, <<Num(2), Num(1)>>}}

\* the collections passed to loadRelations: rows of one table, each once
InputCollections ==
    {recs \in BoundedSeq(InputRecords, MaxRecords) :
        \A i, j \in 1..Len(recs) : i # j => recs[i] # recs[j]}

\* the column of a target row besides the target key column
OtherColumn(meta) == IF meta.targetColumn = N_id THEN N_name ELSE N_id

\* rows the database can return for WHERE targetColumn IN (params)
RowsFor(meta, params) ==
    {(meta.targetColumn :> k) @@ (OtherColumn(meta) :> Num(l)) :
        k \in {params[i] : i \in 1..Len(params)}, l \in RowLabels}

\* result.rows: rows of the target table, each at most once, in any order;
\* at most n of them
ResultRows(meta, params, n) ==
    {rows \in BoundedSeq(RowsFor(meta, params), n) :
        \A i, j \in 1..Len(rows) : i # j => rows[i] # rows[j]}

\* RelationLoader.transformRow
transformRow(row) ==
    [camelKey \in {snakeToCamel(key) : key \in DOMAIN row} |->
        row[CHOOSE key \in DOMAIN row : snakeToCamel(key) = camelKey]]

\* [...new Set(records.map(r => r[column]).filter(v => v !== null && v !== undefined))]
RECURSIVE distinctValues(_, _, _)
distinctValues(recs, column, seen) ==
    IF recs = <<>> THEN seen
    ELSE LET v == Get(Head(recs), column) IN
         distinctValues(Tail(recs), column,
                        IF v = Null \/ v = Undefined \/ (\E i \in 1..Len(seen) : seen[i] = v)
                        THEN seen ELSE Append(seen, v))

keyValues(recs, meta) == distinctValues(recs, snakeToCamel(meta.sourceColumn), <<>>)

\* indexes of the rows whose target key is `key`, in result order
rowsWithKey(rows, meta, key) ==
    SelectSeq([i \in 1..Len(rows) |-> i],
              LAMBDA i : Get(rows[i], meta.targetColumn) = key)

\* loadBelongsTo: relatedMap.set(key, row) for every row, then
\* record[relationName] = relatedMap.get(fkValue) || null
loadBelongsTo(recs, relationName, meta, rows) ==
    [r \in 1..Len(recs) |->
        LET fkValue == Get(recs[r], snakeToCamel(meta.sourceColumn))
            hits == rowsWithKey(rows, meta, fkValue)
        IN (relationName :> (IF hits = <<>> THEN Null
                             ELSE Obj(transformRow(rows[hits[Len(hits)]]))))
           @@ recs[r]]

\* a loadHasMany without the `|| []` default
loadHasMany_NoDefault(recs, relationName, meta, rows) ==
    [r \in 1..Len(recs) |->
        LET pkValue == Get(recs[r], snakeToCamel(meta.sourceColumn))
            hits == rowsWithKey(rows, meta, pkValue)
        IN IF hits = <<>> THEN recs[r]
           ELSE (relationName :> Arr([h \in 1..Len(hits) |-> transformRow(rows[hits[h]])]))
                @@ recs[r]]

\* loadHasMany: relatedMap.get(key).push(row) for every row, then
\* record[relationName] = relatedMap.get(pkValue) || []
loadHasMany(recs, relationName, meta, rows) ==
    [r \in 1..Len(recs) |->
        LET pkValue == Get(recs[r], snakeToCamel(meta.sourceColumn))
            hits == rowsWithKey(rows, meta, pkValue)
        IN (relationName :> Arr([h \in 1..Len(hits) |-> transformRow(rows[hits[h]])]))
           @@ recs[r]]

\* loadHasOne: relatedMap.set(key, row) unless relatedMap.has(key), then
\* record[relationName] = relatedMap.get(pkValue) || null
loadHasOne(recs, relationName, meta, rows) ==
    [r \in 1..Len(recs) |->
        LET pkValue == Get(recs[r], snakeToCamel(meta.sourceColumn))
            hits == rowsWithKey(rows, meta, pkValue)
        IN (relationName :> (IF hits = <<>> THEN Null
                             ELSE Obj(transformRow(rows[hits[1]]))))
           @@ recs[r]]

\* SELECT * FROM "targetTable" WHERE "targetColumn" IN ($1, ..., $n)
RelationQuery(meta, params, at) ==
    [table |-> meta.targetTable, column |-> meta.targetColumn,
     placeholders |-> [i \in 1..Len(params) |-> i], params |-> params, at |-> at]

\* loadRelations: if (records.length === 0) return records
loadRelations ==
    /\ relPc = "start"
    /\ IF Len(records) = 0
       THEN relPc' = "done" /\ relOutcome' = "resolved" /\ idx' = idx
       ELSE relPc' = "loop" /\ relOutcome' = relOutcome /\ idx' = 1
    /\ UNCHANGED <<records, relationNames, queries, warnings, rowsReturned, lastRows>>
    /\ UNCHANGED <<trxVars, mutVars, qbVars, migVars, gwVars, nameVars, ovVars>>

\* a loop iteration that throws on an unknown relationship name
NextRelation_UnknownThrows ==
    /\ relPc = "loop"
    /\ IF idx > Len(relationNames)
       THEN /\ relPc' = "done" /\ relOutcome' = "resolved"
            /\ UNCHANGED <<idx, queries, warnings>>
       ELSE LET relationName == relationNames[idx] IN
            IF relationName \notin DOMAIN relationMeta
            THEN /\ relPc' = "done" /\ relOutcome' = "rejected"
                 /\ UNCHANGED <<idx, queries, warnings>>
            ELSE LET meta == relationMeta[relationName]
                     values == keyValues(records, meta)
                 IN IF Len(values) = 0
                    THEN /\ idx' = idx + 1
                         /\ UNCHANGED <<relPc, relOutcome, queries, warnings>>
                    ELSE /\ queries' = Append(queries, RelationQuery(meta, values, idx))
                         /\ relPc' = "await"
                         /\ UNCHANGED <<idx, relOutcome, warnings>>
    /\ UNCHANGED <<records, relationNames, rowsReturned, lastRows>>
    /\ UNCHANGED <<trxVars, mutVars, qbVars, migVars, gwVars, nameVars, ovVars>>

\* a loop iteration that sends one query per record with a key (N+1 loading)
NextRelation_PerRecord ==
    /\ relPc = "loop"
    /\ IF idx > Len(relationNames)
       THEN /\ relPc' = "done" /\ relOutcome' = "resolved"
            /\ UNCHANGED <<idx, queries, warnings>>
       ELSE LET relationName == relationNames[idx] IN
            IF relationName \notin DOMAIN relationMeta
            THEN /\ warnings' = Append(warnings, relationName)
                 /\ idx' = idx + 1
                 /\ UNCHANGED <<relPc, relOutcome, queries>>
            ELSE LET meta == relationMeta[relationName]
                     keyed == SelectSeq(records,
                                 LAMBDA r : Get(r, snakeToCamel(meta.sourceColumn))
                                            \notin {Null, Undefined})
                 IN IF keyed = <<>>
                    THEN /\ idx' = idx + 1
                         /\ UNCHANGED <<relPc, relOutcome, queries, warnings>>
                    ELSE /\ queries' = queries \o
                              [i \in 1..Len(keyed) |->
                                  RelationQuery(meta,
                                      <<Get(keyed[i], snakeToCamel(meta.sourceColumn))>>, idx)]
                         /\ relPc' = "await"
                         /\ UNCHANGED <<idx, relOutcome, warnings>>
    /\ UNCHANGED <<records, relationNames, rowsReturned, lastRows>>
    /\ UNCHANGED <<trxVars, mutVars, qbVars, migVars, gwVars, nameVars, ovVars>>

\* for (const relationName of relationNames): the iteration up to its await,
\* or the return after the last one
NextRelation ==
    /\ relPc = "loop"
    /\ IF idx > Len(relationNames)
       THEN /\ relPc' = "done" /\ relOutcome' = "resolved"
            /\ UNCHANGED <<idx, queries, warnings>>
       ELSE LET relationName == relationNames[idx] IN
            IF relationName \notin DOMAIN relationMeta
            THEN /\ warnings' = Append(warnings, relationName)
                 /\ idx' = idx + 1
                 /\ UNCHANGED <<relPc, relOutcome, queries>>
            ELSE LET meta == relationMeta[relationName]
                     values == keyValues(records, meta)
                 IN IF Len(values) = 0
                    THEN /\ idx' = idx + 1
                         /\ UNCHANGED <<relPc, relOutcome, queries, warnings>>
                    ELSE /\ queries' = Append(queries, RelationQuery(meta, values, idx))
                         /\ relPc' = "await"
                         /\ UNCHANGED <<idx, relOutcome, warnings>>
    /\ UNCHANGED <<records, relationNames, rowsReturned, lastRows>>
    /\ UNCHANGED <<trxVars, mutVars, qbVars, migVars, gwVars, nameVars, ovVars>>

\* adapter.query settles: a rejection propagates out of loadRelations
QueryRejects ==
    /\ relPc = "await"
    /\ relPc' = "done"
    /\ relOutcome' = "rejected"
    /\ UNCHANGED <<records, relationNames, idx, queries, warnings, rowsReturned, lastRows>>
    /\ UNCHANGED <<trxVars, mutVars, qbVars, migVars, gwVars, nameVars, ovVars>>

\* ... a result is spliced onto the records and the loop continues
QueryResolves ==
    /\ relPc = "await"
    /\ LET relationName == relationNames[idx]
           meta == relationMeta[relationName]
           params == queries[Len(queries)].params
       IN \E rows \in ResultRows(meta, params, MaxRelRows - rowsReturned) :
             /\ rowsReturned' = rowsReturned + Len(rows)
             /\ lastRows' = [at |-> idx, rows |-> rows]
             /\ records' = CASE meta.type = "belongsTo" ->
                                 loadBelongsTo(records, relationName, meta, rows)
                            [] meta.type = "hasMany" ->
                                 loadHasMany(records, relationName, meta, rows)
                            [] meta.type = "hasOne" ->
                                 loadHasOne(records, relationName, meta, rows)
    /\ idx' = idx + 1
    /\ relPc' = "loop"
    /\ UNCHANGED <<relationNames, queries, warnings, relOutcome>>
    /\ UNCHANGED <<trxVars, mutVars, qbVars, migVars, gwVars, nameVars, ovVars>>

\* ------------------------------------------------------ QueryBuilder
\* bounds of the query builder model: builder objects alive, and where
\* conditions of the builder toSQL() is applied to
MaxBuilders == 4
MaxConds == 2

Str(s) == [t |-> "string", v |-> s]

\* new QueryBuilder(tableName): the arrays are the first three of the heap
NewBuilder ==
    [tableName |-> TableName, modelName |-> "", selectedColumns |-> Str("*"),
     whereConditions |-> 1, orderByClauses |-> 2, limitCount |-> Null,
     offsetCount |-> Null, includedRelations |-> 3, relationMeta |-> "none"]

\* the call that returned a builder; "new" for the constructor
Call(method, from, column, operator, value, columns) ==
    [method |-> method, from |-> from, column |-> column, operator |-> operator,
     value |-> value, columns |-> columns]

\* a builder that shares the three arrays of `this`
clone_SharedArrays(this) == [builder |-> this, arrays |-> arrays]

\* clone(): a new builder with the scalar fields of `this` and spread copies
\* of its three arrays
clone(this) ==
    LET n == Len(arrays) IN
    [builder |-> [this EXCEPT !.whereConditions = n + 1,
                              !.orderByClauses = n + 2,
                              !.includedRelations = n + 3],
     arrays |-> arrays \o <<arrays[this.whereConditions],
                            arrays[this.orderByClauses],
                            arrays[this.includedRelations]>>]

\* arguments of the chain methods
SelectArgs == {<<N_id, N_createdAt>>}
WhereArgs ==
    {<<N_id, Num(1), Undefined>>,
     <<N_createdAt, Str("IN"), Arr(<<Num(1), Num(2)>>)>>}
NullColumns == {N_name}
OrderArgs == {<<N_createdAt, "DESC">>}
Counts == {1}
IncludeArgs == {N_posts}

\* the end of every chain method: the new builder is returned
Return(created, heap, call) ==
    /\ builders' = Append(builders, created)
    /\ arrays' = heap
    /\ lineage' = Append(lineage, call)
    /\ UNCHANGED rendered
    /\ UNCHANGED <<trxVars, mutVars, relVars, migVars, gwVars, nameVars, ovVars>>

include ==
    /\ Len(builders) < MaxBuilders
    /\ \E this \in 1..Len(builders), relation \in IncludeArgs :
          LET c == clone(builders[this]) IN
          Return(c.builder,
                 [c.arrays EXCEPT ![c.builder.includedRelations] = Append(@, relation)],
                 Call("include", this, relation, "", Null, <<>>))

select ==
    /\ Len(builders) < MaxBuilders
    /\ \E this \in 1..Len(builders), columns \in SelectArgs \cup {<<<<"*">>>>} :
          LET c == clone(builders[this]) IN
          Return([c.builder EXCEPT !.selectedColumns =
                     IF Len(columns) = 1 /\ columns[1] = <<"*">>
                     THEN Str("*") ELSE Arr(columns)],
                 c.arrays,
                 Call("select", this, <<>>, "", Null, columns))

\* where(column, operatorOrValue, value?)
QueryBuilder_where ==
    /\ Len(builders) < MaxBuilders
    /\ \E this \in 1..Len(builders), args \in WhereArgs :
          LET c == clone(builders[this])
              column == args[1]
              operatorOrValue == args[2]
              value == args[3]
              operator == IF value = Undefined THEN "=" ELSE operatorOrValue.v
              actualValue == IF value = Undefined THEN operatorOrValue ELSE value
          IN Return(c.builder,
                    [c.arrays EXCEPT ![c.builder.whereConditions] =
                        Append(@, [column |-> column, operator |-> operator,
                                   value |-> actualValue])],
                    Call("where", this, column,
                         IF value = Undefined THEN "=" ELSE operatorOrValue.v,
                         IF value = Undefined THEN operatorOrValue ELSE value, <<>>))

whereNull ==
    /\ Len(builders) < MaxBuilders
    /\ \E this \in 1..Len(builders), column \in NullColumns :
          LET c == clone(builders[this]) IN
          Return(c.builder,
                 [c.arrays EXCEPT ![c.builder.whereConditions] =
                     Append(@, [column |-> column, operator |-> "IS NULL",
                                value |-> Null])],
                 Call("whereNull", this, column, "", Null, <<>>))

whereNotNull ==
    /\ Len(builders) < MaxBuilders
    /\ \E this \in 1..Len(builders), column \in NullColumns :
          LET c == clone(builders[this]) IN
          Return(c.builder,
                 [c.arrays EXCEPT ![c.builder.whereConditions] =
                     Append(@, [column |-> column, operator |-> "IS NOT NULL",
                                value |-> Null])],
                 Call("whereNotNull", this, column, "", Null, <<>>))

orderBy ==
    /\ Len(builders) < MaxBuilders
    /\ \E this \in 1..Len(builders), args \in OrderArgs :
          LET c == clone(builders[this]) IN
          Return(c.builder,
                 [c.arrays EXCEPT ![c.builder.orderByClauses] =
                     Append(@, [column |-> args[1], direction |-> args[2]])],
                 Call("orderBy", this, args[1], args[2], Null, <<>>))

limit ==
    /\ Len(builders) < MaxBuilders
    /\ \E this \in 1..Len(builders), count \in Counts :
          LET c == clone(builders[this]) IN
          Return([c.builder EXCEPT !.limitCount = Num(count)], c.arrays,
                 Call("limit", this, <<>>, "", Num(count), <<>>))

offset ==
    /\ Len(builders) < MaxBuilders
    /\ \E this \in 1..Len(builders), count \in Counts :
          LET c == clone(builders[this]) IN
          Return([c.builder EXCEPT !.offsetCount = Num(count)], c.arrays,
                 Call("offset", this, <<>>, "", Num(count), <<>>))

\* setRelationMeta(modelName, meta): this.modelName = modelName;
\* this.relationMeta = meta; return this
setRelationMeta ==
    /\ opCall.method = "none"
    /\ \E this \in 1..Len(builders), modelName \in {"User"}, meta \in {"none", "registry"} :
          /\ builders' = [builders EXCEPT ![this].modelName = modelName,
                                          ![this].relationMeta = meta]
          /\ opCall' = [method |-> "setRelationMeta", this |-> this]
    /\ UNCHANGED <<arrays, lineage, rendered, opRes, adapterLog>>
    /\ UNCHANGED <<trxVars, mutVars, relVars, migVars, nameVars, ovVars>>

\* the pieces of the rendered SQL text
Kw(w) == [kind |-> "keyword", word |-> w, name |-> <<>>, n |-> 0]
Quoted(name) == [kind |-> "quoted", word |-> "", name |-> name, n |-> 0]
QuotedTable(w) == [kind |-> "quoted", word |-> w, name |-> <<>>, n |-> 0]
Placeholder(n) == [kind |-> "placeholder", word |-> "$", name |-> <<>>, n |-> n]
Literal(n) == [kind |-> "literal", word |-> "", name |-> <<>>, n |-> n]

\* Array.prototype.join over pieces of text
RECURSIVE join(_, _)
join(parts, separator) ==
    IF parts = <<>> THEN <<>>
    ELSE IF Len(parts) = 1 THEN parts[1]
    ELSE parts[1] \o <<separator>> \o join(Tail(parts), separator)

buildSelectClause(this) ==
    IF this.selectedColumns = Str("*") THEN <<Kw("*")>>
    ELSE LET columns == this.selectedColumns.v IN
         join([i \in 1..Len(columns) |-> <<Quoted(camelToSnake(columns[i]))>>], Kw(","))

\* a condition callback that binds an IN list as one parameter
renderCondition_ListAsOneParameter(cond, params) ==
    LET columnName == Quoted(camelToSnake(cond.column)) IN
    IF cond.operator = "IS NULL" THEN
        [sql |-> <<columnName, Kw("IS NULL")>>, params |-> params]
    ELSE IF cond.operator = "IS NOT NULL" THEN
        [sql |-> <<columnName, Kw("IS NOT NULL")>>, params |-> params]
    ELSE IF cond.operator \in {"IN", "NOT IN"} THEN
        [sql |-> <<columnName, Kw(cond.operator), Kw("("),
                   Placeholder(Len(params) + 1), Kw(")")>>,
         params |-> Append(params, cond.value)]
    ELSE
        [sql |-> <<columnName, Kw(cond.operator), Placeholder(Len(params) + 1)>>,
         params |-> Append(params, cond.value)]

\* the callback of whereConditions.map: the text of one condition, and params
\* after its pushes
renderCondition(cond, params) ==
    LET columnName == Quoted(camelToSnake(cond.column)) IN
    IF cond.operator = "IS NULL" THEN
        [sql |-> <<columnName, Kw("IS NULL")>>, params |-> params]
    ELSE IF cond.operator = "IS NOT NULL" THEN
        [sql |-> <<columnName, Kw("IS NOT NULL")>>, params |-> params]
    ELSE IF cond.operator \in {"IN", "NOT IN"} THEN
        LET values == cond.value.v IN
        [sql |-> <<columnName, Kw(cond.operator), Kw("(")>>
                 \o join([i \in 1..Len(values) |-> <<Placeholder(Len(params) + i)>>],
                         Kw(","))
                 \o <<Kw(")")>>,
         params |-> params \o values]
    ELSE
        [sql |-> <<columnName, Kw(cond.operator), Placeholder(Len(params) + 1)>>,
         params |-> Append(params, cond.value)]

\* whereConditions.map(...) from left to right
RECURSIVE mapConditions(_, _)
mapConditions(conds, params) ==
    IF conds = <<>> THEN [parts |-> <<>>, params |-> params]
    ELSE LET first == renderCondition(Head(conds), params)
             rest == mapConditions(Tail(conds), first.params)
         IN [parts |-> <<first.sql>> \o rest.parts, params |-> rest.params]

buildWhereClause(this, params) ==
    IF Len(arrays[this.whereConditions]) = 0
    THEN [sql |-> <<>>, params |-> params]
    ELSE LET conditions == mapConditions(arrays[this.whereConditions], params) IN
         [sql |-> <<Kw("WHERE")>> \o join(conditions.parts, Kw("AND")),
          params |-> conditions.params]

buildOrderByClause(this) ==
    LET clauses == arrays[this.orderByClauses] IN
    IF Len(clauses) = 0 THEN <<>>
    ELSE <<Kw("ORDER BY")>>
         \o join([i \in 1..Len(clauses) |->
                     <<Quoted(camelToSnake(clauses[i].column)), Kw(clauses[i].direction)>>],
                 Kw(","))

buildSelectQuery(this) ==
    LET selectClause == buildSelectClause(this)
        whereClause == buildWhereClause(this, <<>>)
        orderByClause == buildOrderByClause(this)
    IN [sql |-> <<Kw("SELECT")>> \o selectClause
                \o <<Kw("FROM"), QuotedTable(this.tableName)>>
                \o whereClause.sql
                \o orderByClause
                \o (IF this.limitCount # Null
                    THEN <<Kw("LIMIT"), Literal(this.limitCount.v)>> ELSE <<>>)
                \o (IF this.offsetCount # Null
                    THEN <<Kw("OFFSET"), Literal(this.offsetCount.v)>> ELSE <<>>),
        params |-> whereClause.params]

NotRendered == [sql |-> <<>>, params |-> <<>>]

\* toSQL() on the builder
toSQL ==
    /\ rendered = NotRendered
    /\ \E this \in 1..Len(builders) : rendered' = buildSelectQuery(builders[this])
    /\ UNCHANGED <<builders, arrays, lineage>>
    /\ UNCHANGED <<trxVars, mutVars, relVars, migVars, gwVars, nameVars, ovVars>>

\* ------------------------------------------------------ MigrationManager
\* bounds of the migration model: entries of the migrations directory
MaxFiles == 2

\* the two runAllPending executions that may overlap
Runs == {1, 2}

\* file names are sequences of UTF-16 code units
DotSql == <<46, 115, 113, 108>>
F_1 == <<49>> \o DotSql
F_10 == <<49, 48>> \o DotSql
F_2 == <<50>> \o DotSql
F_2txt == <<50, 46, 116, 120, 116>>
FileNames == {F_1, F_10, F_2, F_2txt}

\* f.endsWith(suffix)
endsWith(f, suffix) ==
    /\ Len(f) >= Len(suffix)
    /\ SubSeq(f, Len(f) - Len(suffix) + 1, Len(f)) = suffix

\* the comparison of Array.prototype.sort() without a comparator: strings by
\* their code units
RECURSIVE Before(_, _)
Before(a, b) ==
    IF b = <<>> THEN FALSE
    ELSE IF a = <<>> THEN TRUE
    ELSE IF Head(a) # Head(b) THEN Head(a) < Head(b)
    ELSE Before(Tail(a), Tail(b))

\* files.sort()
RECURSIVE sort(_)
sort(files) ==
    IF files = <<>> THEN <<>>
    ELSE LET first == CHOOSE i \in 1..Len(files) :
                         \A j \in 1..Len(files) : ~Before(files[j], files[i])
         IN <<files[first]>>
            \o sort(SubSeq(files, 1, first - 1) \o SubSeq(files, first + 1, Len(files)))

\* fs.readdirSync(dir): the entries in an order the file system chooses
Listings(present) ==
    {listing \in [1..Cardinality(present) -> present] :
        \A i, j \in 1..Cardinality(present) : i # j => listing[i] # listing[j]}

\* getAllMigrationFiles without the sort
getAllMigrationFiles_Unsorted(listing) ==
    LET files == SelectSeq(listing, LAMBDA f : endsWith(f, DotSql)) IN
    [i \in 1..Len(files) |-> [name |-> files[i], path |-> files[i]]]

\* getAllMigrationFiles: filter(".sql"), sort(), map to {name: f, path}
getAllMigrationFiles(listing) ==
    LET files == sort(SelectSeq(listing, LAMBDA f : endsWith(f, DotSql))) IN
    [i \in 1..Len(files) |-> [name |-> files[i], path |-> files[i]]]

\* a filter that keeps every migration
filterPending_KeepAll(allMigrations, executed) == allMigrations

\* allMigrations.filter((m) => !executed.includes(m.name))
filterPending(allMigrations, executed) ==
    SelectSeq(allMigrations,
              LAMBDA m : ~\E i \in 1..Len(executed) : executed[i] = m.name)

\* a statement sent on the dedicated client, and whether it succeeded
Sent(sql, ok) == [sql |-> sql, ok |-> ok]

\* a run before runAllPending is called
IdleRun ==
    [pc |-> "idle", allMigrations |-> <<>>, seen |-> <<>>, pending |-> <<>>,
     k |-> 0, executed |-> <<>>,
     stmts |-> <<>>, inTx |-> FALSE, txScripts |-> <<>>, txNames |-> <<>>,
     acquired |-> 0, released |-> 0, afterFullRun |-> FALSE]

\* number of times name occurs in a list
Count(list, name) == Cardinality({i \in 1..Len(list) : list[i] = name})

\* the migration a run is working on
Current(r) == runs[r].pending[runs[r].k]

\* a run has returned after committing every migration that was pending
FullRun(r) ==
    /\ runs[r].pc = "resolved"
    /\ Len(runs[r].executed) = Len(runs[r].pending)

\* runAllPending() is called: the CREATE TABLE IF NOT EXISTS query is issued
runAllPending(r) ==
    /\ runs[r].pc = "idle"
    /\ runs' = [runs EXCEPT ![r].pc = "ensure",
                            ![r].afterFullRun = \E o \in Runs \ {r} : FullRun(o)]
    /\ UNCHANGED <<dir, db>>
    /\ UNCHANGED <<trxVars, mutVars, relVars, qbVars, gwVars, nameVars, ovVars>>

\* a tracking table created without the UNIQUE constraint on name
ensureMigrationsTable_NoUnique(r) ==
    /\ runs[r].pc = "ensure"
    /\ \E ok \in BOOLEAN :
          IF ok
          THEN /\ db' = [db EXCEPT !.table = IF @ = "absent" THEN "plain" ELSE @]
               /\ \E listing \in Listings(dir) :
                     runs' = [runs EXCEPT
                                 ![r].allMigrations = getAllMigrationFiles(listing),
                                 ![r].pc = "getExecuted"]
          ELSE /\ runs' = [runs EXCEPT ![r].pc = "rejected"]
               /\ UNCHANGED db
    /\ UNCHANGED dir
    /\ UNCHANGED <<trxVars, mutVars, relVars, qbVars, gwVars, nameVars, ovVars>>

\* ensureMigrationsTable: CREATE TABLE IF NOT EXISTS ... name ... UNIQUE;
\* then getPendingMigrations reads the directory and issues the SELECT
ensureMigrationsTable(r) ==
    /\ runs[r].pc = "ensure"
    /\ \E ok \in BOOLEAN :
          IF ok
          THEN /\ db' = [db EXCEPT !.table = IF @ = "absent" THEN "unique" ELSE @]
               /\ \E listing \in Listings(dir) :
                     runs' = [runs EXCEPT
                                 ![r].allMigrations = getAllMigrationFiles(listing),
                                 ![r].pc = "getExecuted"]
          ELSE /\ runs' = [runs EXCEPT ![r].pc = "rejected"]
               /\ UNCHANGED db
    /\ UNCHANGED dir
    /\ UNCHANGED <<trxVars, mutVars, relVars, qbVars, gwVars, nameVars, ovVars>>

\* getPendingMigrations: SELECT name ... ORDER BY id settles, the migrations
\* read are filtered; an empty pending list returns from runAllPending
getPendingMigrations(r) ==
    /\ runs[r].pc = "getExecuted"
    /\ \E ok \in BOOLEAN :
          IF ok
          THEN LET executed == db.names
                   migrations == filterPending(runs[r].allMigrations, executed)
               IN runs' = [runs EXCEPT
                              ![r].seen = executed,
                              ![r].pending = [i \in 1..Len(migrations) |->
                                                 migrations[i].name],
                              ![r].k = 1,
                              ![r].pc = IF migrations = <<>> THEN "resolved"
                                        ELSE "getClient"]
          ELSE runs' = [runs EXCEPT ![r].pc = "rejected"]
    /\ UNCHANGED <<dir, db>>
    /\ UNCHANGED <<trxVars, mutVars, relVars, qbVars, gwVars, nameVars, ovVars>>

\* runMigration: adapter.getClient() settles
runMigration(r) ==
    /\ runs[r].pc = "getClient"
    /\ \E ok \in BOOLEAN :
          IF ok
          THEN runs' = [runs EXCEPT ![r].pc = "BEGIN", ![r].acquired = @ + 1,
                                    ![r].stmts = <<>>, ![r].inTx = FALSE,
                                    ![r].txScripts = <<>>, ![r].txNames = <<>>]
          ELSE runs' = [runs EXCEPT ![r].pc = "rejected"]
    /\ UNCHANGED <<dir, db>>
    /\ UNCHANGED <<trxVars, mutVars, relVars, qbVars, gwVars, nameVars, ovVars>>

\* a runMigration that does not open a transaction
MigrationBegin_NoTransaction(r) ==
    /\ runs[r].pc = "BEGIN"
    /\ runs' = [runs EXCEPT ![r].pc = "script"]
    /\ UNCHANGED <<dir, db>>
    /\ UNCHANGED <<trxVars, mutVars, relVars, qbVars, gwVars, nameVars, ovVars>>

\* await client.query("BEGIN")
MigrationBegin(r) ==
    /\ runs[r].pc = "BEGIN"
    /\ \E ok \in BOOLEAN :
          runs' = [runs EXCEPT ![r].stmts = Append(@, Sent("BEGIN", ok)),
                               ![r].inTx = ok,
                               ![r].pc = IF ok THEN "script" ELSE "ROLLBACK"]
    /\ UNCHANGED <<dir, db>>
    /\ UNCHANGED <<trxVars, mutVars, relVars, qbVars, gwVars, nameVars, ovVars>>

\* await client.query(sql): the script body; outside a transaction its
\* effects are committed at once, a failure aborts the transaction
MigrationScript(r) ==
    /\ runs[r].pc = "script"
    /\ \E ok \in BOOLEAN :
          /\ runs' = [runs EXCEPT
                         ![r].stmts = Append(@, Sent("script", ok)),
                         ![r].txScripts = IF ok /\ runs[r].inTx
                                          THEN Append(@, Current(r)) ELSE <<>>,
                         ![r].txNames = IF ok THEN @ ELSE <<>>,
                         ![r].pc = IF ok THEN "INSERT" ELSE "ROLLBACK"]
          /\ db' = IF ok /\ ~runs[r].inTx
                   THEN [db EXCEPT !.applied = Append(@, Current(r))] ELSE db
    /\ UNCHANGED dir
    /\ UNCHANGED <<trxVars, mutVars, relVars, qbVars, gwVars, nameVars, ovVars>>

\* the name is held by a transaction of another connection that is still open
HeldByOther(r, name) ==
    \E o \in Runs \ {r} : Count(runs[o].txNames, name) > 0

\* await client.query("INSERT INTO _iblal_migrations (name) VALUES ($1)"):
\* with the UNIQUE constraint the insert fails when the name is recorded, and
\* waits while another open transaction has inserted the same name
MigrationInsert(r) ==
    /\ runs[r].pc = "INSERT"
    /\ \E ok \in BOOLEAN :
          /\ (ok /\ db.table = "unique") =>
                /\ Count(db.names, Current(r)) = 0
                /\ ~HeldByOther(r, Current(r))
          /\ runs' = [runs EXCEPT
                         ![r].stmts = Append(@, Sent("INSERT", ok)),
                         ![r].txNames = IF ok /\ runs[r].inTx
                                        THEN Append(@, Current(r)) ELSE <<>>,
                         ![r].txScripts = IF ok THEN @ ELSE <<>>,
                         ![r].pc = IF ok THEN "COMMIT" ELSE "ROLLBACK"]
          /\ db' = IF ok /\ ~runs[r].inTx
                   THEN [db EXCEPT !.names = Append(@, Current(r))] ELSE db
    /\ UNCHANGED dir
    /\ UNCHANGED <<trxVars, mutVars, relVars, qbVars, gwVars, nameVars, ovVars>>

\* await client.query("COMMIT"): on success the transaction's effects are
\* committed, then finally { release }, executed.push(name) and the next
\* iteration of runAllPending, or its return
MigrationCommit(r) ==
    /\ runs[r].pc = "COMMIT"
    /\ \E ok \in BOOLEAN :
          IF ok
          THEN /\ db' = [db EXCEPT !.applied = @ \o runs[r].txScripts,
                                   !.names = @ \o runs[r].txNames]
               /\ runs' = [runs EXCEPT
                              ![r].stmts = Append(@, Sent("COMMIT", TRUE)),
                              ![r].inTx = FALSE,
                              ![r].txScripts = <<>>, ![r].txNames = <<>>,
                              ![r].released = @ + 1,
                              ![r].executed = Append(@, Current(r)),
                              ![r].k = @ + 1,
                              ![r].pc = IF runs[r].k = Len(runs[r].pending)
                                        THEN "resolved" ELSE "getClient"]
          ELSE /\ runs' = [runs EXCEPT
                              ![r].stmts = Append(@, Sent("COMMIT", FALSE)),
                              ![r].txScripts = <<>>, ![r].txNames = <<>>,
                              ![r].pc = "ROLLBACK"]
               /\ UNCHANGED db
    /\ UNCHANGED dir
    /\ UNCHANGED <<trxVars, mutVars, relVars, qbVars, gwVars, nameVars, ovVars>>

\* a catch block that swallows the failure and goes on with the next migration
MigrationRollback_Continue(r) ==
    /\ runs[r].pc = "ROLLBACK"
    /\ runs' = [runs EXCEPT ![r].inTx = FALSE,
                            ![r].txScripts = <<>>, ![r].txNames = <<>>,
                            ![r].released = @ + 1,
                            ![r].k = @ + 1,
                            ![r].pc = IF runs[r].k = Len(runs[r].pending)
                                      THEN "resolved" ELSE "getClient"]
    /\ UNCHANGED <<dir, db>>
    /\ UNCHANGED <<trxVars, mutVars, relVars, qbVars, gwVars, nameVars, ovVars>>

\* a runMigration without the finally block: the connection is released only
\* after the ROLLBACK has succeeded
MigrationRollback_NoFinally(r) ==
    /\ runs[r].pc = "ROLLBACK"
    /\ \E ok \in BOOLEAN :
          runs' = [runs EXCEPT ![r].stmts = Append(@, Sent("ROLLBACK", ok)),
                               ![r].inTx = FALSE,
                               ![r].txScripts = <<>>, ![r].txNames = <<>>,
                               ![r].released = IF ok THEN @ + 1 ELSE @,
                               ![r].pc = "rejected"]
    /\ UNCHANGED <<dir, db>>
    /\ UNCHANGED <<trxVars, mutVars, relVars, qbVars, gwVars, nameVars, ovVars>>

\* catch: await client.query("ROLLBACK"); throw error; finally { release }:
\* runAllPending rejects
MigrationRollback(r) ==
    /\ runs[r].pc = "ROLLBACK"
    /\ \E ok \in BOOLEAN :
          runs' = [runs EXCEPT ![r].stmts = Append(@, Sent("ROLLBACK", ok)),
                               ![r].inTx = FALSE,
                               ![r].txScripts = <<>>, ![r].txNames = <<>>,
                               ![r].released = @ + 1,
                               ![r].pc = "rejected"]
    /\ UNCHANGED <<dir, db>>
    /\ UNCHANGED <<trxVars, mutVars, relVars, qbVars, gwVars, nameVars, ovVars>>

\* ------------------------------------------------------ DbAdapter / execution
\* bounds of the execution model: rows the database returns to the query of
\* exec(), relationships included on the builder, records given to insertMany
MaxRows == 1
MaxIncluded == 1
MaxBatch == 2

\* what pool.query rejects with: an Error, or a value that is not an Error
Causes ==
    {[isError |-> TRUE, message |-> "Connection failed"],
     [isError |-> FALSE, message |-> "Unknown error"]}
NoCause == [isError |-> FALSE, message |-> ""]
PoolAnswers ==
    {[ok |-> TRUE, cause |-> NoCause]} \cup {[ok |-> FALSE, cause |-> c] : c \in Causes}

UnknownDatabaseError == "Unknown database error"

\* a DbAdapter.query that tries the driver a second time after a failure
DbAdapter_query_Retry(answer) ==
    [driver |-> IF answer.ok THEN 1 ELSE 2,
     ok |-> answer.ok,
     message |-> IF answer.ok THEN <<>>
                 ELSE <<QueryFailed,
                        IF answer.cause.isError THEN answer.cause.message
                        ELSE UnknownDatabaseError>>]

\* DbAdapter.query: one await this.pool.query(sql, params); a rejection is
\* rethrown as new Error(`Database query failed: ${errorMessage}`), the
\* message given as its two parts
DbAdapter_query(answer) ==
    [driver |-> 1,
     ok |-> answer.ok,
     message |-> IF answer.ok THEN <<>>
                 ELSE <<QueryFailed,
                        IF answer.cause.isError THEN answer.cause.message
                        ELSE UnknownDatabaseError>>]

\* settlements of a public call
OpPending == [kind |-> "pending", message |-> <<>>, value |-> Undefined]
OpResolved(v) == [kind |-> "resolved", message |-> <<>>, value |-> v]
OpRejected(m) == [kind |-> "rejected", message |-> m, value |-> Undefined]

Bool(b) == [t |-> "boolean", v |-> b]

\* an adapter.query call: who made it, the statement, what the driver answered,
\* the driver invocations made, the outcome of the call and the number of rows
\* the database answered with
LogEntry(by, statement, answer, q, n) ==
    [by |-> by, statement |-> statement, cause |-> answer.cause,
     driver |-> q.driver, ok |-> q.ok, message |-> q.message, rows |-> n]

\* rows of the builder's table as the database stores them
StoredRows ==
    {(N_id :> rec[N_id]) @@ (N_category_id :> rec[N_categoryId]) : rec \in InputRecords}

\* result.rows of a SELECT: at most n rows, each once
QueryRows(n) ==
    {rows \in BoundedSeq(StoredRows, n) :
        \A i, j \in 1..Len(rows) : i # j => rows[i] # rows[j]}

\* relationship names a builder was given through include
IncludedLists ==
    {names \in BoundedSeq({N_posts, N_category, N_tags}, MaxIncluded) :
        \A i, j \in 1..Len(names) : i # j => names[i] # names[j]}

\* this.includedRelations.length > 0 && Object.keys(this.relationMeta).length > 0
LoadsRelations(this) ==
    /\ Len(arrays[this.includedRelations]) > 0
    /\ this.relationMeta # "none"

\* results[0] || null
FirstOrNull(results) == IF results = <<>> THEN Null ELSE Obj(results[1])

\* QueryBuilder.exec(): the query is built and sent, a failure rejects; the
\* rows are transformed; with included relationships the RelationLoader is
\* handed the rows, else they are returned
QueryBuilder_exec ==
    /\ opCall.method = "none"
    /\ \E this \in 1..Len(builders), answer \in PoolAnswers, rows \in QueryRows(MaxRows) :
          LET b == builders[this]
              q == DbAdapter_query(answer)
              recs == [i \in 1..Len(rows) |-> transformRow(rows[i])]
          IN /\ ~answer.ok => rows = <<>>
             /\ opCall' = [method |-> "exec", this |-> this]
             /\ adapterLog' = Append(adapterLog,
                                     LogEntry("exec", buildSelectQuery(b), answer, q,
                                              Len(rows)))
             /\ IF ~q.ok
                THEN /\ opRes' = OpRejected(q.message)
                     /\ UNCHANGED <<records, relationNames, relPc>>
                ELSE IF LoadsRelations(b)
                THEN /\ opRes' = OpPending
                     /\ records' = recs
                     /\ relationNames' = arrays[b.includedRelations]
                     /\ relPc' = "start"
                ELSE /\ opRes' = OpResolved(Arr(recs))
                     /\ UNCHANGED <<records, relationNames, relPc>>
    /\ UNCHANGED <<idx, queries, warnings, relOutcome, rowsReturned, lastRows>>
    /\ UNCHANGED <<trxVars, mutVars, qbVars, migVars, nameVars, ovVars>>

\* QueryBuilder.first(): this.limit(1).exec(), then results[0] || null; the
\* database answers a LIMIT 1 query with at most one row
QueryBuilder_first ==
    /\ opCall.method = "none"
    /\ \E this \in 1..Len(builders), answer \in PoolAnswers, rows \in QueryRows(1) :
          LET c == clone(builders[this])
              limited == [c.builder EXCEPT !.limitCount = Num(1)]
              q == DbAdapter_query(answer)
              recs == [i \in 1..Len(rows) |-> transformRow(rows[i])]
          IN /\ ~answer.ok => rows = <<>>
             /\ builders' = Append(builders, limited)
             /\ arrays' = c.arrays
             /\ lineage' = Append(lineage, Call("limit", this, <<>>, "", Num(1), <<>>))
             /\ opCall' = [method |-> "first", this |-> this]
             /\ adapterLog' = Append(adapterLog,
                   LogEntry("first",
                            buildSelectQuery([builders[this] EXCEPT !.limitCount = Num(1)]),
                            answer, q, Len(rows)))
             /\ IF ~q.ok
                THEN /\ opRes' = OpRejected(q.message)
                     /\ UNCHANGED <<records, relationNames, relPc>>
                ELSE IF LoadsRelations(builders[this])
                THEN /\ opRes' = OpPending
                     /\ records' = recs
                     /\ relationNames' = arrays[builders[this].includedRelations]
                     /\ relPc' = "start"
                ELSE /\ opRes' = OpResolved(FirstOrNull(recs))
                     /\ UNCHANGED <<records, relationNames, relPc>>
    /\ UNCHANGED rendered
    /\ UNCHANGED <<idx, queries, warnings, relOutcome, rowsReturned, lastRows>>
    /\ UNCHANGED <<trxVars, mutVars, migVars, nameVars, ovVars>>

\* loader.loadRelations(rows, this.includedRelations) has settled: exec
\* returns the rows or rejects with what the loader rejected with (the cause
\* of a relationship query's failure is not kept by the loader model)
ExecAfterRelations ==
    /\ opRes.kind = "pending"
    /\ relPc = "done"
    /\ opRes' = IF relOutcome = "rejected" THEN OpRejected(<<QueryFailed>>)
                ELSE IF opCall.method = "first" THEN OpResolved(FirstOrNull(records))
                ELSE OpResolved(Arr(records))
    /\ UNCHANGED <<opCall, adapterLog>>
    /\ UNCHANGED <<trxVars, mutVars, relVars, qbVars, migVars, nameVars, ovVars>>

\* the text of the count column, and parseInt(text, 10) of a digit string
Digits == <<"0", "1", "2", "3", "4", "5", "6", "7", "8", "9">>
CountTexts == {<<"0">>, <<"7">>, <<"1", "2">>}
DigitValue(c) == (CHOOSE i \in 1..10 : Digits[i] = c) - 1
RECURSIVE parseInt(_)
parseInt(text) ==
    IF text = <<>> THEN 0
    ELSE 10 * parseInt(SubSeq(text, 1, Len(text) - 1)) + DigitValue(text[Len(text)])

\* QueryBuilder.count(): SELECT COUNT(*) as count FROM "table" with the WHERE
\* clause of the builder, one query, parseInt(result.rows[0].count, 10)
QueryBuilder_count ==
    /\ opCall.method = "none"
    /\ \E this \in 1..Len(builders), answer \in PoolAnswers, text \in CountTexts :
          LET b == builders[this]
              whereClause == buildWhereClause(b, <<>>)
              q == DbAdapter_query(answer)
          IN /\ opCall' = [method |-> "count", this |-> this]
             /\ adapterLog' = Append(adapterLog,
                   LogEntry("count",
                            [sql |-> <<Kw("SELECT COUNT(*) as count FROM"),
                                       QuotedTable(b.tableName)>> \o whereClause.sql,
                             params |-> whereClause.params],
                            answer, q, IF q.ok THEN 1 ELSE 0))
             /\ opRes' = IF q.ok THEN OpResolved(Num(parseInt(text)))
                         ELSE OpRejected(q.message)
    /\ UNCHANGED <<trxVars, mutVars, relVars, qbVars, migVars, nameVars, ovVars>>

\* ------------------------------------------------------ Table: insertMany, by-id calls
\* record[key]: the value of a payload's field, undefined when it has none
Lookup(data, key) ==
    IF \E i \in 1..Len(data) : data[i][1] = key
    THEN Str(data[CHOOSE i \in 1..Len(data) : data[i][1] = key][2])
    ELSE Undefined

\* the row RETURNING * gives back for the r-th inserted record
InsertedRow(r) == (N_id :> Num(r))

\* the INSERT of insertMany: columns from the first record's keys without the
\* auto fields, placeholders numbered row-major, allValues in the same order
InsertManyStatement(dataArray) ==
    LET firstRecord == dataArray[1]
        kept == entries(firstRecord)
        keys == [c \in 1..Len(kept) |-> kept[c][1]]
        n == Len(keys)
    IN [op |-> "INSERT", table |-> TableName,
        columns |-> [c \in 1..n |-> camelToSnake(keys[c])],
        valueRows |-> [r \in 1..Len(dataArray) |->
                          [c \in 1..n |-> (r - 1) * n + (c - 1) + 1]],
        allValues |-> [k \in 1..(Len(dataArray) * n) |->
                          Lookup(dataArray[((k - 1) \div n) + 1], keys[((k - 1) % n) + 1])]]

\* an insertMany that sends one INSERT per record
Table_insertMany_PerRecord(dataArray, answer) ==
    LET q == DbAdapter_query(answer) IN
    [log |-> [r \in 1..Len(dataArray) |->
                 LogEntry("insertMany", InsertManyStatement(<<dataArray[r]>>), answer, q,
                          IF q.ok THEN 1 ELSE 0)],
     res |-> IF q.ok \/ Len(dataArray) = 0
             THEN OpResolved(Arr([r \in 1..Len(dataArray) |-> transformRow(InsertedRow(r))]))
             ELSE OpRejected(q.message)]

\* Table.insertMany(dataArray): the adapter.query calls it makes and how it
\* settles when the gateway answers `answer`
Table_insertMany(dataArray, answer) ==
    IF Len(dataArray) = 0
    THEN [log |-> <<>>, res |-> OpResolved(Arr(<<>>))]
    ELSE LET q == DbAdapter_query(answer) IN
         [log |-> <<LogEntry("insertMany", InsertManyStatement(dataArray), answer, q,
                             IF q.ok THEN Len(dataArray) ELSE 0)>>,
          res |-> IF q.ok
                  THEN OpResolved(Arr([r \in 1..Len(dataArray) |->
                                          transformRow(InsertedRow(r))]))
                  ELSE OpRejected(q.message)]

\* the batches passed to insertMany
Batches == BoundedSeq(Payloads, MaxBatch)

\* await table.insertMany(dataArray)
insertMany ==
    /\ opCall.method = "none"
    /\ \E dataArray \in Batches, answer \in PoolAnswers :
          LET eff == Table_insertMany(dataArray, answer) IN
          /\ opCall' = [method |-> "insertMany", this |-> 0, dataArray |-> dataArray]
          /\ adapterLog' = adapterLog \o eff.log
          /\ opRes' = eff.res
    /\ UNCHANGED <<trxVars, mutVars, relVars, qbVars, migVars, nameVars, ovVars>>

\* Table.findById(id): new QueryBuilder(...).where("id", id).first(), which is
\* limit(1).exec() and results[0] || null; no relationship is included
Table_findById(id, answer, rows) ==
    LET q == DbAdapter_query(answer)
        results == [i \in 1..Len(rows) |-> transformRow(rows[i])]
    IN [log |-> <<LogEntry("findById",
                           [op |-> "SELECT", table |-> TableName,
                            where |-> <<[column |-> N_id, operator |-> "=", value |-> id]>>,
                            limit |-> 1],
                           answer, q, Len(rows))>>,
        res |-> IF q.ok THEN OpResolved(FirstOrNull(results)) ELSE OpRejected(q.message)]

\* Table.updateById(id, data): update(data).where("id", id).exec(), then
\* result[0] || null; n is the number of rows the UPDATE returns
Table_updateById(id, data, answer, n) ==
    LET b == [kind |-> "update", tableName |-> TableName, data |-> data,
              whereConditions |-> <<[column |-> N_id, value |-> id]>>]
        eff == UpdateBuilder_exec(b, [ok |-> answer.ok, rows |-> n])
        q == DbAdapter_query(answer)
    IN IF eff.stmt = NoStatement
       THEN [log |-> <<>>, res |-> OpRejected(<<eff.res.message>>)]
       ELSE [log |-> <<LogEntry("updateById", eff.stmt, answer, q, n)>>,
             res |-> IF ~q.ok THEN OpRejected(q.message)
                     ELSE OpResolved(IF eff.res.n > 0
                                     THEN Obj(transformRow((N_id :> Num(id))))
                                     ELSE Null)]

\* a comparison that reports a delete of no row as a success
Deleted_ZeroCounts(count) == Bool(count >= 0)

\* count > 0
Deleted(count) == Bool(count > 0)

\* Table.deleteById(id): delete().where("id", id).exec(), then count > 0; n is
\* result.rowCount
Table_deleteById(id, answer, n) ==
    LET b == [kind |-> "delete", tableName |-> TableName, data |-> <<>>,
              whereConditions |-> <<[column |-> N_id, value |-> id]>>]
        eff == DeleteBuilder_exec(b, [ok |-> answer.ok, rows |-> n])
        q == DbAdapter_query(answer)
    IN [log |-> <<LogEntry("deleteById", eff.stmt, answer, q, n)>>,
        res |-> IF ~q.ok THEN OpRejected(q.message) ELSE OpResolved(Deleted(eff.res.n))]

\* the row with primary key id as the database stores it
RowsWithId(id) ==
    {<<>>} \cup {<<row>> : row \in {s \in StoredRows : s[N_id] = Num(id)}}

\* await table.findById(id)
findById ==
    /\ opCall.method = "none"
    /\ \E id \in WhereValues, answer \in PoolAnswers :
       \E rows \in RowsWithId(id) :
          LET eff == Table_findById(id, answer, rows) IN
          /\ ~answer.ok => rows = <<>>
          /\ opCall' = [method |-> "findById", this |-> 0, id |-> id]
          /\ adapterLog' = adapterLog \o eff.log
          /\ opRes' = eff.res
    /\ UNCHANGED <<trxVars, mutVars, relVars, qbVars, migVars, nameVars, ovVars>>

\* await table.updateById(id, data)
updateById ==
    /\ opCall.method = "none"
    /\ \E id \in WhereValues, data \in Payloads, answer \in PoolAnswers, n \in RowCounts :
          LET eff == Table_updateById(id, data, answer, n) IN
          /\ ~answer.ok => n = 0
          /\ opCall' = [method |-> "updateById", this |-> 0, id |-> id, data |-> data]
          /\ adapterLog' = adapterLog \o eff.log
          /\ opRes' = eff.res
    /\ UNCHANGED <<trxVars, mutVars, relVars, qbVars, migVars, nameVars, ovVars>>

\* await table.deleteById(id)
deleteById ==
    /\ opCall.method = "none"
    /\ \E id \in WhereValues, answer \in PoolAnswers, n \in RowCounts :
          LET eff == Table_deleteById(id, answer, n) IN
          /\ ~answer.ok => n = 0
          /\ opCall' = [method |-> "deleteById", this |-> 0, id |-> id]
          /\ adapterLog' = adapterLog \o eff.log
          /\ opRes' = eff.res
    /\ UNCHANGED <<trxVars, mutVars, relVars, qbVars, migVars, nameVars, ovVars>>

\* ------------------------------------------------------ naming round trip
\* bound of the naming model: length of a field name
MaxNameLen == 4

\* characters of a name: a lower-case letter, an upper-case letter, a digit
\* and the underscore
NameChars == {"a", "D", "2", "_"}
FieldNames == BoundedSeq(NameChars, MaxNameLen)

\* the column is rendered: `"${camelToSnake(column)}"`
RenderColumn ==
    /\ namePc = "named"
    /\ storageName' = Quoted(camelToSnake(fieldName)).name
    /\ namePc' = "rendered"
    /\ UNCHANGED <<fieldName, readName>>
    /\ UNCHANGED <<trxVars, mutVars, relVars, qbVars, migVars, gwVars, ovVars>>

\* a row with that column comes back and is transformed
ReadColumn ==
    /\ namePc = "rendered"
    /\ LET transformed == transformRow((storageName :> Num(1))) IN
          readName' = CHOOSE camelKey \in DOMAIN transformed : TRUE
    /\ namePc' = "read"
    /\ UNCHANGED <<fieldName, storageName>>
    /\ UNCHANGED <<trxVars, mutVars, relVars, qbVars, migVars, gwVars, ovVars>>

\* ------------------------------------------------------ specifications
InitTrxCommon ==
    /\ isCompleted = FALSE
    /\ sent = <<>>
    /\ released = 0
    /\ calls = 0
    /\ lastOp = "none"
    /\ lastRes = None
    /\ issued = <<>>
    /\ used = {}
    /\ cbValue = "none"
    /\ thrown = None
    /\ caught = None
    /\ pending = Pending
    /\ outcome = Pending

InitRelIdle ==
    /\ records = <<>>
    /\ relationNames = <<>>
    /\ idx = 0
    /\ relPc = "unused"
    /\ queries = <<>>
    /\ warnings = <<>>
    /\ relOutcome = "pending"
    /\ rowsReturned = 0
    /\ lastRows = [at |-> 0, rows |-> <<>>]

InitQbIdle ==
    /\ builders = <<>>
    /\ arrays = <<>>
    /\ lineage = <<>>
    /\ rendered = NotRendered

InitMigIdle ==
    /\ dir = {}
    /\ db = [table |-> "absent", names |-> <<>>, applied |-> <<>>]
    /\ runs = [r \in Runs |-> [IdleRun EXCEPT !.pc = "unused"]]

InitOvIdle == inflight = <<>>

InitNameIdle ==
    /\ fieldName = <<>>
    /\ storageName = <<>>
    /\ readName = <<>>
    /\ namePc = "unused"

InitGwIdle ==
    /\ opCall = [method |-> "unused", this |-> 0]
    /\ opRes = [kind |-> "none", message |-> <<>>, value |-> [t |-> "undefined"]]
    /\ adapterLog = <<>>

InitMutIdle ==
    /\ autoFields = DefaultAutoFields
    /\ builder = NoBuilder
    /\ execs = 0
    /\ execRes = NoResult
    /\ gwCount = 0
    /\ gwLast = NoStatement

\* new TransactionClient(client), used directly
InitHandle ==
    /\ InitTrxCommon
    /\ InitOvIdle
    /\ InitNameIdle
    /\ InitGwIdle
    /\ InitQbIdle
    /\ InitMigIdle
    /\ InitMutIdle
    /\ InitRelIdle
    /\ pc = "direct"
    /\ acquired = TRUE

NextHandle == CallQuery \/ CallCommit \/ CallRollback

SpecHandle == InitHandle /\ [][NextHandle]_vars

\* transaction(callback)
InitTrx ==
    /\ InitTrxCommon
    /\ InitOvIdle
    /\ InitNameIdle
    /\ InitGwIdle
    /\ InitQbIdle
    /\ InitMigIdle
    /\ InitMutIdle
    /\ InitRelIdle
    /\ pc = "start"
    /\ acquired = FALSE

NextTrx ==
    \/ GetClient
    \/ Begin
    \/ CallQuery
    \/ CallCommit
    \/ CallRollback
    \/ CallbackReturns
    \/ CallbackThrows
    \/ Commit
    \/ Catch
    \/ Finally

SpecTrx == InitTrx /\ [][NextTrx]_vars

\* new Table(tableName, autoFields), then update(...) / delete() builders
InitMut ==
    /\ InitTrxCommon
    /\ InitOvIdle
    /\ InitNameIdle
    /\ InitGwIdle
    /\ InitQbIdle
    /\ InitMigIdle
    /\ pc = "unused"
    /\ acquired = FALSE
    /\ InitRelIdle
    /\ \E custom \in SUBSET CustomAutoFields : autoFields = DefaultAutoFields \cup custom
    /\ builder = NoBuilder
    /\ execs = 0
    /\ execRes = NoResult
    /\ gwCount = 0
    /\ gwLast = NoStatement

NextMut == update \/ delete \/ where \/ exec

SpecMut == InitMut /\ [][NextMut]_vars

\* new RelationLoader(modelName, tableName, relationMeta).loadRelations(records, names)
InitRel ==
    /\ InitTrxCommon
    /\ InitOvIdle
    /\ InitNameIdle
    /\ InitGwIdle
    /\ InitQbIdle
    /\ InitMigIdle
    /\ pc = "unused"
    /\ acquired = FALSE
    /\ InitMutIdle
    /\ records \in InputCollections
    /\ relationNames \in RequestLists
    /\ idx = 0
    /\ relPc = "start"
    /\ queries = <<>>
    /\ warnings = <<>>
    /\ relOutcome = "pending"
    /\ rowsReturned = 0
    /\ lastRows = [at |-> 0, rows |-> <<>>]

NextRel == loadRelations \/ NextRelation \/ QueryRejects \/ QueryResolves

SpecRel == InitRel /\ [][NextRel]_vars

\* the conditions a builder can have accumulated through where, whereNull and
\* whereNotNull
Conditions ==
    <<[column |-> N_id, operator |-> "=", value |-> Num(1)],
      [column |-> N_createdAt, operator |-> ">", value |-> Num(2)],
      [column |-> N_createdAt, operator |-> "IN", value |-> Arr(<<Num(1), Num(2)>>)],
      [column |-> N_id, operator |-> "NOT IN", value |-> Arr(<<>>)],
      [column |-> N_name, operator |-> "IS NULL", value |-> Null],
      [column |-> N_name, operator |-> "IS NOT NULL", value |-> Null]>>

\* new QueryBuilder("users"), then chains of the immutable methods
InitQB ==
    /\ InitTrxCommon
    /\ InitOvIdle
    /\ InitNameIdle
    /\ InitGwIdle
    /\ InitMigIdle
    /\ pc = "unused"
    /\ acquired = FALSE
    /\ InitMutIdle
    /\ InitRelIdle
    /\ builders = <<NewBuilder>>
    /\ arrays = <<<<>>, <<>>, <<>>>>
    /\ lineage = <<Call("new", 0, <<>>, "", Null, <<>>)>>
    /\ rendered = NotRendered

NextQB ==
    \/ include
    \/ select
    \/ QueryBuilder_where
    \/ whereNull
    \/ whereNotNull
    \/ orderBy
    \/ limit
    \/ offset

SpecQB == InitQB /\ [][NextQB]_vars

\* a builder at the end of a chain of where/limit/offset calls, then toSQL()
InitSQL ==
    /\ InitTrxCommon
    /\ InitOvIdle
    /\ InitNameIdle
    /\ InitGwIdle
    /\ InitMigIdle
    /\ pc = "unused"
    /\ acquired = FALSE
    /\ InitMutIdle
    /\ InitRelIdle
    /\ \E chosen \in BoundedSeq(1..Len(Conditions), MaxConds),
          limitCount \in {Null} \cup {Num(c) : c \in Counts},
          offsetCount \in {Null} \cup {Num(c) : c \in Counts} :
          /\ builders = <<[NewBuilder EXCEPT !.limitCount = limitCount,
                                            !.offsetCount = offsetCount]>>
          /\ arrays = <<[i \in 1..Len(chosen) |-> Conditions[chosen[i]]], <<>>, <<>>>>
    /\ lineage = <<>>
    /\ rendered = NotRendered

NextSQL == toSQL

SpecSQL == InitSQL /\ [][NextSQL]_vars

\* a builder with where conditions and included relationships, then one of
\* exec(), first(), count()
InitExec ==
    /\ InitTrxCommon
    /\ InitOvIdle
    /\ InitNameIdle
    /\ InitMigIdle
    /\ InitMutIdle
    /\ InitRelIdle
    /\ pc = "unused"
    /\ acquired = FALSE
    /\ \E conds \in {<<>>, <<Conditions[1]>>}, included \in IncludedLists,
          meta \in {"none", "registry"} :
          /\ builders = <<[NewBuilder EXCEPT !.relationMeta = meta]>>
          /\ arrays = <<conds, <<>>, included>>
    /\ lineage = <<Call("new", 0, <<>>, "", Null, <<>>)>>
    /\ rendered = NotRendered
    /\ opCall = [method |-> "none", this |-> 0]
    /\ opRes = [kind |-> "none", message |-> <<>>, value |-> Undefined]
    /\ adapterLog = <<>>

NextExec ==
    \/ QueryBuilder_exec
    \/ QueryBuilder_first
    \/ QueryBuilder_count
    \/ loadRelations
    \/ NextRelation
    \/ QueryRejects
    \/ QueryResolves
    \/ ExecAfterRelations

SpecExec == InitExec /\ [][NextExec]_vars

\* new Table(tableName, autoFields), then one of insertMany and the by-id calls
InitTbl ==
    /\ InitTrxCommon
    /\ InitOvIdle
    /\ InitNameIdle
    /\ InitQbIdle
    /\ InitMigIdle
    /\ InitRelIdle
    /\ pc = "unused"
    /\ acquired = FALSE
    /\ \E custom \in SUBSET CustomAutoFields : autoFields = DefaultAutoFields \cup custom
    /\ builder = NoBuilder
    /\ execs = 0
    /\ execRes = NoResult
    /\ gwCount = 0
    /\ gwLast = NoStatement
    /\ opCall = [method |-> "none", this |-> 0]
    /\ opRes = [kind |-> "none", message |-> <<>>, value |-> Undefined]
    /\ adapterLog = <<>>

NextTbl == insertMany \/ findById \/ updateById \/ deleteById

SpecTbl == InitTbl /\ [][NextTbl]_vars

\* a field name, rendered as a column and read back from a row
InitName ==
    /\ InitTrxCommon
    /\ InitOvIdle
    /\ InitGwIdle
    /\ InitQbIdle
    /\ InitMigIdle
    /\ InitMutIdle
    /\ InitRelIdle
    /\ pc = "unused"
    /\ acquired = FALSE
    /\ fieldName \in FieldNames
    /\ storageName = <<>>
    /\ readName = <<>>
    /\ namePc = "named"

NextName == RenderColumn \/ ReadColumn

SpecName == InitName /\ [][NextName]_vars

\* a builder as chained calls left it, then one call of a public method on it
InitFrame == InitExec

\* no public method has been called on the builder yet
Fresh ==
    /\ Len(builders) = 1
    /\ rendered = NotRendered
    /\ opCall.method = "none"

NextFrame ==
    \/ Fresh /\ include
    \/ Fresh /\ select
    \/ Fresh /\ QueryBuilder_where
    \/ Fresh /\ whereNull
    \/ Fresh /\ whereNotNull
    \/ Fresh /\ orderBy
    \/ Fresh /\ limit
    \/ Fresh /\ offset
    \/ Fresh /\ setRelationMeta
    \/ Fresh /\ toSQL
    \/ Fresh /\ QueryBuilder_exec
    \/ Fresh /\ QueryBuilder_first
    \/ Fresh /\ QueryBuilder_count
    \/ loadRelations
    \/ NextRelation
    \/ QueryRejects
    \/ QueryResolves
    \/ ExecAfterRelations

SpecFrame == InitFrame /\ [][NextFrame]_vars

\* new TransactionClient(client), its methods called without awaiting
InitOverlap ==
    /\ InitTrxCommon
    /\ InitNameIdle
    /\ InitGwIdle
    /\ InitQbIdle
    /\ InitMigIdle
    /\ InitMutIdle
    /\ InitRelIdle
    /\ pc = "overlap"
    /\ acquired = TRUE
    /\ inflight = <<>>

NextOverlap == IssueQuery \/ IssueCommit \/ IssueRollback \/ AwaitSettles

SpecOverlap == InitOverlap /\ [][NextOverlap]_vars

\* the names recorded by earlier runs: any of the migrations in the
\* directory, in the order they were applied in
RecordedBefore(present) ==
    LET allMigrations == getAllMigrationFiles(CHOOSE l \in Listings(present) : TRUE)
        names == [i \in 1..Len(allMigrations) |-> allMigrations[i].name]
    IN {SelectSeq(names, LAMBDA n : n \in kept) :
           kept \in SUBSET {names[i] : i \in 1..Len(names)}}

\* a migrations directory and a database as earlier runs left them, and two
\* runAllPending executions not yet called
InitMig ==
    /\ InitTrxCommon
    /\ InitOvIdle
    /\ InitNameIdle
    /\ InitGwIdle
    /\ InitQbIdle
    /\ pc = "unused"
    /\ acquired = FALSE
    /\ InitMutIdle
    /\ InitRelIdle
    /\ dir \in {d \in SUBSET FileNames : Cardinality(d) <= MaxFiles}
    /\ \E names \in RecordedBefore(dir), table \in {"absent", "unique"} :
          /\ names # <<>> => table = "unique"
          /\ db = [table |-> table, names |-> names, applied |-> names]
    /\ runs = [r \in Runs |-> IdleRun]

NextMig ==
    \E r \in Runs :
        \/ runAllPending(r)
        \/ ensureMigrationsTable(r)
        \/ getPendingMigrations(r)
        \/ runMigration(r)
        \/ MigrationBegin(r)
        \/ MigrationScript(r)
        \/ MigrationInsert(r)
        \/ MigrationCommit(r)
        \/ MigrationRollback(r)

SpecMig == InitMig /\ [][NextMig]_vars

\* ------------------------------------------------------------ properties
SentSql == [i \in 1..Len(sent) |-> sent[i].sql]

NumSent(sql) == Cardinality({i \in 1..Len(sent) : sent[i].sql = sql})

NumSucceeded(sql) == Cardinality({i \in 1..Len(sent) : sent[i] = Stmt(sql, TRUE)})

Settled == pc = "done"

\* C1: every execution of transaction(callback) that obtained a connection has
\* called release() on it exactly once by the time it settles, on every exit
\* path (never more than once, and never before the try/catch is left).
C1_ReleasedExactlyOnce ==
    /\ released <= 1
    /\ (Settled /\ acquired) => released = 1
    /\ released = 1 => Settled

\* C1 witness: transaction() settled after the callback threw and the ROLLBACK
\* statement itself failed, and the connection was released once.
C1_Witness ==
    /\ Settled /\ acquired /\ released = 1
    /\ thrown # None
    /\ Len(sent) > 0 /\ sent[Len(sent)] = Stmt("ROLLBACK", FALSE)

\* C2: when BEGIN succeeds, the callback (issuing only query()) returns v and
\* COMMIT succeeds, the connection saw BEGIN, then the callback's statements in
\* issuance order, then COMMIT, no ROLLBACK, and transaction() resolved with v.
C2_CommitPath ==
    ( /\ Settled
      /\ Len(sent) > 0 /\ sent[1] = Stmt("BEGIN", TRUE)
      /\ used \subseteq {"query"}
      /\ cbValue # "none"
      /\ NumSucceeded("COMMIT") > 0 )
    => /\ SentSql = <<"BEGIN">> \o issued \o <<"COMMIT">>
       /\ NumSent("ROLLBACK") = 0
       /\ outcome = Resolved(cbValue)

\* C2 witness: a settled run whose callback issued two statements and returned.
C2_Witness ==
    /\ Settled
    /\ used = {"query"} /\ Len(issued) = 2 /\ issued[1] # issued[2]
    /\ cbValue = "v2"
    /\ NumSucceeded("COMMIT") = 1
    /\ outcome = Resolved("v2")

\* C3: when the callback (issuing only query()) throws, transaction() sends
\* ROLLBACK, never sends COMMIT, releases the connection and rejects.
C3_RollbackPath ==
    (Settled /\ thrown # None /\ used \subseteq {"query"})
    => /\ NumSent("ROLLBACK") = 1
       /\ NumSent("COMMIT") = 0
       /\ released = 1
       /\ outcome.kind = "rejected"

\* C3 witness: the callback issued a statement and then threw.
C3_Witness ==
    /\ Settled /\ thrown = CallbackError
    /\ used = {"query"} /\ Len(issued) >= 1
    /\ NumSent("ROLLBACK") = 1 /\ outcome.kind = "rejected"

\* C4: when the callback throws e, transaction() rejects with e itself, whatever
\* the outcome of the ROLLBACK statement.
C4_OriginalErrorPropagated ==
    (Settled /\ thrown # None) => outcome = Rejected(thrown)

\* C5: on a Completed handle, query() and commit() each fail with the error
\* 'Transaction has already been completed', send no statement on the
\* connection, and leave the handle Completed.
C5_CompletedRejects ==
    [][ (isCompleted /\ calls' = calls + 1 /\ lastOp' \in {"query", "commit"})
        => /\ lastRes'.kind = "Transaction has already been completed"
           /\ sent' = sent
           /\ isCompleted' ]_vars

\* C5 witness: commit() called on a handle that a successful commit completed.
C5_Witness ==
    /\ isCompleted
    /\ lastOp = "commit"
    /\ lastRes.kind = "Transaction has already been completed"
    /\ NumSucceeded("COMMIT") = 1

\* C6 (as stated): for any sequence of awaited rollback() calls on one handle
\* the ROLLBACK statement is sent only once.
C6_RollbackSentOnce ==
    used \subseteq {"rollback"} => NumSent("ROLLBACK") <= 1

\* C6 (amended): rollback() on a Completed handle (completed by commit or by
\* rollback) resolves without error and sends nothing, so at most one ROLLBACK
\* succeeds and nothing is sent after it; rollback() on an Active handle sends
\* ROLLBACK, and when that statement fails the handle stays Active.
C6_RollbackIdempotentOnceCompleted ==
    /\ [](NumSucceeded("ROLLBACK") <= 1)
    /\ [][ (calls' = calls + 1 /\ lastOp' = "rollback")
           => IF isCompleted
              THEN sent' = sent /\ lastRes' = Ok /\ isCompleted'
              ELSE /\ Len(sent') = Len(sent) + 1
                   /\ sent'[Len(sent')].sql = "ROLLBACK"
                   /\ isCompleted' = sent'[Len(sent')].ok
                   /\ IsError(lastRes') = ~sent'[Len(sent')].ok ]_vars

\* C6 witness: two rollback() calls, the first sent ROLLBACK and succeeded, the
\* second resolved without sending.
C6_Witness ==
    /\ used = {"rollback"} /\ calls = 2
    /\ isCompleted /\ lastRes = Ok
    /\ SentSql = <<"ROLLBACK">>

ExecStep == execs' = execs + 1

\* C7: update(data).exec() and delete().exec() with zero WHERE conditions always
\* fail with the WHERE-required error, for any data payload, before any
\* statement is sent; hence every UPDATE or DELETE statement that reaches the
\* gateway carries at least one WHERE predicate.
C7_WhereGuard ==
    /\ [][ (ExecStep /\ Len(builder.whereConditions) = 0)
           => /\ execRes' = Failure(IF builder.kind = "update"
                                    THEN WhereRequiredUpdate
                                    ELSE WhereRequiredDelete)
              /\ gwCount' = gwCount
              /\ gwLast' = gwLast ]_vars
    /\ [](gwLast.op \in {"UPDATE", "DELETE"} => Len(gwLast.where) >= 1)
    /\ [](gwCount > 0 => gwLast.op \in {"UPDATE", "DELETE"})

\* C7 witness: update(data) with a non-empty payload was executed without a
\* WHERE condition and failed, after an earlier statement had been sent.
C7_Witness ==
    /\ builder.kind = "update" /\ Len(builder.data) > 0
    /\ Len(builder.whereConditions) = 0
    /\ execRes = Failure(WhereRequiredUpdate)
    /\ execs = 2 /\ gwCount = 1

\* C8: update(data).where(...).exec() in which no key of data survives the
\* excluded set (id, createdAt, updatedAt plus the configured auto fields),
\* including data = {}, fails with 'No valid fields to update' and sends no
\* statement to the gateway.
C8_NoValidFields ==
    [][ ( /\ ExecStep
          /\ builder.kind = "update"
          /\ Len(builder.whereConditions) > 0
          /\ \A i \in 1..Len(builder.data) : builder.data[i][1] \in autoFields )
        => /\ execRes' = Failure(NoValidFields)
           /\ gwCount' = gwCount
           /\ gwLast' = gwLast ]_vars

\* C8 witness: the payload held only id and a configured auto field.
C8_Witness ==
    /\ builder.kind = "update"
    /\ Len(builder.data) = 2
    /\ \E i \in 1..2 : builder.data[i][1] = N_tenantId
    /\ Len(builder.whereConditions) > 0
    /\ execs = 1 /\ gwCount = 0
    /\ execRes = Failure(NoValidFields)

\* the value an unresolved relationship is to hold: null for belongsTo/hasOne,
\* the empty list for hasMany
EmptyValue(meta) == IF meta.type = "hasMany" THEN Arr(<<>>) ELSE Null

\* C9: relation resolution never issues a query per record: loadRelations
\* sends at most one query for each requested relationship, so the number of
\* queries is bounded by the number of requested names, whatever the number
\* of input records.
C9_OneQueryPerRelation ==
    /\ \A i, j \in 1..Len(queries) : i # j => queries[i].at # queries[j].at
    /\ \A i \in 1..Len(queries) : queries[i].at \in 1..Len(relationNames)
    /\ Len(queries) <= Len(relationNames)

\* C9 witness: two records with distinct keys, two different relationships
\* resolved, two queries.
C9_Witness ==
    /\ relPc = "done" /\ relOutcome = "resolved"
    /\ Len(records) = 2 /\ Get(records[1], N_id) # Get(records[2], N_id)
    /\ Get(records[1], N_id) # Undefined /\ Get(records[2], N_id) # Undefined
    /\ Len(relationNames) = 2 /\ relationNames[1] # relationNames[2]
    /\ Len(queries) = 2

\* C10: when the distinct non-null local key values of the input records form
\* an empty set, the resolver issues zero queries and sets the relationship
\* field on every record to the empty value (null for belongsTo/hasOne, the
\* empty list for hasMany).
C10_EmptyKeySetYieldsEmptyValue ==
    \A i \in 1..Len(relationNames) :
        ( /\ i < idx
          /\ relationNames[i] \in DOMAIN relationMeta
          /\ keyValues(records, relationMeta[relationNames[i]]) = <<>> )
        => /\ \A q \in 1..Len(queries) : queries[q].at # i
           /\ \A r \in 1..Len(records) :
                 Get(records[r], relationNames[i])
                    = EmptyValue(relationMeta[relationNames[i]])

\* the rows of the latest result whose target key equals the local key of rec
Matching(rec, meta) ==
    LET hits == rowsWithKey(lastRows.rows, meta,
                            Get(rec, snakeToCamel(meta.sourceColumn)))
    IN [h \in 1..Len(hits) |-> transformRow(lastRows.rows[hits[h]])]

\* C11: after a relationship query was issued and answered, every input
\* record has the relationship field present: a record whose local key matches
\* no target row holds the empty list (hasMany) or null (belongsTo/hasOne),
\* and a record with a match holds the matching record(s).
C11_FieldPresentAfterQuery ==
    lastRows.at # 0 =>
        LET relationName == relationNames[lastRows.at]
            meta == relationMeta[relationName]
        IN \A r \in 1..Len(records) :
              LET value == Get(records[r], relationName)
                  matching == Matching(records[r], meta)
              IN /\ value # Undefined
                 /\ matching = <<>> => value = EmptyValue(meta)
                 /\ matching # <<>> =>
                       IF meta.type = "hasMany"
                       THEN value = Arr(matching)
                       ELSE \E h \in 1..Len(matching) : value = Obj(matching[h])

\* C11 witness: a hasMany query answered with a row for the first record and
\* none for the second.
C11_Witness ==
    /\ lastRows.at # 0 /\ Len(records) = 2
    /\ relationNames[lastRows.at] = N_posts
    /\ Matching(records[1], relationMeta[N_posts]) # <<>>
    /\ Get(records[2], N_posts) = Arr(<<>>)

\* C12: when the relationship query returns several rows with the same
\* target-key value, belongsTo and hasOne attach the first such row in result
\* order, and hasMany attaches all of them as a list in result order.
C12_FirstRowWins ==
    lastRows.at # 0 =>
        LET relationName == relationNames[lastRows.at]
            meta == relationMeta[relationName]
        IN \A r \in 1..Len(records) :
              LET matching == Matching(records[r], meta)
              IN Len(matching) > 1 =>
                    Get(records[r], relationName)
                       = (IF meta.type = "hasMany" THEN Arr(matching)
                          ELSE Obj(matching[1]))

\* the names of relationNames up to position n that are not in the registry
RECURSIVE UnknownUpTo(_)
UnknownUpTo(n) ==
    IF n = 0 THEN <<>>
    ELSE IF relationNames[n] \in DOMAIN relationMeta THEN UnknownUpTo(n - 1)
         ELSE Append(UnknownUpTo(n - 1), relationNames[n])

\* the number of names the loop has gone past
Processed ==
    IF idx = 0 THEN 0
    ELSE IF idx > Len(relationNames) THEN Len(relationNames) ELSE idx - 1

\* C13: an unknown relationship name is non-fatal: loadRelations skips it with
\* a warning, without a query and without rejecting, and still resolves the
\* remaining known names; their queries are issued in the caller's order,
\* one at a time, each awaited before the next one is sent.
C13_UnknownNameSkipped ==
    /\ [](relPc \in {"loop", "await", "done"} =>
            /\ warnings = UnknownUpTo(Processed)
            /\ \A q \in 1..Len(queries) :
                  relationNames[queries[q].at] \in DOMAIN relationMeta
            /\ \A p, q \in 1..Len(queries) :
                  p < q => queries[p].at < queries[q].at
            /\ relOutcome = "rejected" =>
                  /\ queries # <<>> /\ queries[Len(queries)].at = idx
                  /\ lastRows.at < idx
            /\ (relPc = "done" /\ relOutcome = "resolved" /\ records # <<>>) =>
                  \A i \in 1..Len(relationNames) :
                     ( /\ relationNames[i] \in DOMAIN relationMeta
                       /\ keyValues(records, relationMeta[relationNames[i]]) # <<>> )
                     => \E q \in 1..Len(queries) : queries[q].at = i)
    /\ [][queries' # queries =>
            /\ relPc = "loop" /\ relPc' = "await"
            /\ queries' = Append(queries, queries'[Len(queries')])
            /\ queries = <<>> \/ lastRows.at = queries[Len(queries)].at]_vars

\* C13 witness: an unknown name first, then a known one whose query was sent
\* and answered; the call resolved.
C13_Witness ==
    /\ relPc = "done" /\ relOutcome = "resolved"
    /\ Len(relationNames) = 2
    /\ relationNames[1] = N_tags /\ relationNames[2] \in DOMAIN relationMeta
    /\ warnings = <<N_tags>>
    /\ Len(queries) = 1 /\ queries[1].at = 2 /\ lastRows.at = 2

\* the query descriptor held by builder i: its fields with the arrays' contents
Descriptor(i) ==
    [selectedColumns |-> builders[i].selectedColumns,
     whereConditions |-> arrays[builders[i].whereConditions],
     orderByClauses |-> arrays[builders[i].orderByClauses],
     limitCount |-> builders[i].limitCount,
     offsetCount |-> builders[i].offsetCount,
     includedRelations |-> arrays[builders[i].includedRelations]]

\* the descriptor builder i is to hold by the calls that led to it: the
\* descriptor of the builder the call was made on, merged with the call's delta
RECURSIVE Chained(_)
Chained(i) ==
    LET call == lineage[i] IN
    IF call.method = "new"
    THEN [selectedColumns |-> Str("*"), whereConditions |-> <<>>,
          orderByClauses |-> <<>>, limitCount |-> Null, offsetCount |-> Null,
          includedRelations |-> <<>>]
    ELSE LET d == Chained(call.from) IN
         CASE call.method = "select" ->
                [d EXCEPT !.selectedColumns =
                    IF call.columns = <<<<"*">>>> THEN Str("*") ELSE Arr(call.columns)]
           [] call.method \in {"where", "whereNull", "whereNotNull"} ->
                [d EXCEPT !.whereConditions =
                    Append(@, [column |-> call.column,
                               operator |-> CASE call.method = "where" -> call.operator
                                              [] call.method = "whereNull" -> "IS NULL"
                                              [] OTHER -> "IS NOT NULL",
                               value |-> call.value])]
           [] call.method = "orderBy" ->
                [d EXCEPT !.orderByClauses =
                    Append(@, [column |-> call.column, direction |-> call.operator])]
           [] call.method = "limit" -> [d EXCEPT !.limitCount = call.value]
           [] call.method = "offset" -> [d EXCEPT !.offsetCount = call.value]
           [] call.method = "include" ->
                [d EXCEPT !.includedRelations = Append(@, call.column)]

\* the operands a condition binds: the list elements for IN / NOT IN, nothing
\* for IS NULL / IS NOT NULL, the value otherwise
Operands(cond) ==
    IF cond.operator \in {"IN", "NOT IN"} THEN cond.value.v
    ELSE IF cond.operator \in {"IS NULL", "IS NOT NULL"} THEN <<>>
    ELSE <<cond.value>>

RECURSIVE AllOperands(_)
AllOperands(conds) ==
    IF conds = <<>> THEN <<>> ELSE Operands(Head(conds)) \o AllOperands(Tail(conds))

\* the pieces of a rendered text of one kind, in order
Pieces(sql, kind) == SelectSeq(sql, LAMBDA piece : piece.kind = kind)

\* the rendered text from the keyword on, up to the next clause keyword
RECURSIVE UpToClause(_)
UpToClause(sql) ==
    IF sql = <<>> \/ Head(sql) \in {Kw("ORDER BY"), Kw("LIMIT"), Kw("OFFSET")}
    THEN <<>> ELSE <<Head(sql)>> \o UpToClause(Tail(sql))

RECURSIVE Clause(_, _)
Clause(sql, keyword) ==
    IF sql = <<>> THEN <<>>
    ELSE IF Head(sql) = Kw(keyword) THEN UpToClause(Tail(sql))
    ELSE Clause(Tail(sql), keyword)

\* C14: builder branching never cross-contaminates: every chain method returns
\* a new builder and leaves the descriptor of the builder it was called on
\* unchanged, so every builder holds, and renders, exactly the predicates and
\* parameters of its own chain of calls, whatever was chained on other branches
\* before or after.
C14_NoCrossContamination ==
    /\ [](\A i \in 1..Len(builders) :
             /\ Descriptor(i) = Chained(i)
             /\ LET q == buildSelectQuery(builders[i])
                    conds == Chained(i).whereConditions
                    named == Pieces(Clause(q.sql, "WHERE"), "quoted")
                IN /\ q.params = AllOperands(conds)
                   /\ Len(named) = Len(conds)
                   /\ \A c \in 1..Len(conds) :
                         named[c] = Quoted(camelToSnake(conds[c].column)))
    /\ [][\A i \in 1..Len(builders) :
             /\ i <= Len(builders')
             /\ builders'[i] = builders[i]
             /\ arrays'[builders[i].whereConditions] = arrays[builders[i].whereConditions]
             /\ arrays'[builders[i].orderByClauses] = arrays[builders[i].orderByClauses]
             /\ arrays'[builders[i].includedRelations]
                   = arrays[builders[i].includedRelations]]_vars

\* C14 witness: b.where(x) and b.where(y) from the same builder b, and a
\* further where chained on the first branch.
C14_Witness ==
    /\ Len(builders) = 4
    /\ lineage[2].method = "where" /\ lineage[2].from = 1
    /\ lineage[3].method = "where" /\ lineage[3].from = 1
    /\ lineage[2].column # lineage[3].column
    /\ lineage[4].method = "where" /\ lineage[4].from = 2
    /\ Len(Descriptor(1).whereConditions) = 0
    /\ Len(Descriptor(3).whereConditions) = 1
    /\ Len(Descriptor(4).whereConditions) = 2

\* the pieces of text between occurrences of a separator
RECURSIVE Split(_, _)
Split(sql, separator) ==
    IF sql = <<>> THEN <<<<>>>>
    ELSE LET rest == Split(Tail(sql), separator) IN
         IF Head(sql) = separator THEN <<<<>>>> \o rest
         ELSE <<<<Head(sql)>> \o Head(rest)>> \o Tail(rest)

\* C15: for every ordered list of filter predicates, toSQL() renders the
\* placeholders $1..$n strictly sequentially from left to right, n being the
\* length of the parameter list and the i-th parameter the operand bound to
\* $i: IN / NOT IN take one slot per list element, IS NULL / IS NOT NULL take
\* none, every other operator takes exactly one; LIMIT and OFFSET never take
\* a slot.
C15_SequentialPlaceholders ==
    rendered # NotRendered =>
        LET conds == arrays[builders[1].whereConditions]
            placeholders == Pieces(rendered.sql, "placeholder")
            whereClause == Clause(rendered.sql, "WHERE")
            predicates == IF conds = <<>> THEN <<>> ELSE Split(whereClause, Kw("AND"))
        IN /\ Len(placeholders) = Len(rendered.params)
           /\ \A i \in 1..Len(placeholders) : placeholders[i].n = i
           /\ rendered.params = AllOperands(conds)
           /\ Len(predicates) = Len(conds)
           /\ \A c \in 1..Len(conds) :
                 /\ Len(Pieces(predicates[c], "placeholder")) = Len(Operands(conds[c]))
                 /\ predicates[c][1] = Quoted(camelToSnake(conds[c].column))
                 /\ predicates[c][2] = Kw(conds[c].operator)
           /\ Pieces(whereClause, "placeholder") = placeholders
           /\ builders[1].limitCount # Null =>
                 Clause(rendered.sql, "LIMIT") = <<Literal(builders[1].limitCount.v)>>
           /\ builders[1].offsetCount # Null =>
                 Clause(rendered.sql, "OFFSET") = <<Literal(builders[1].offsetCount.v)>>

\* C15 witness: an IN list of two elements followed by an equality, with LIMIT
\* and OFFSET: three placeholders and three parameters.
C15_Witness ==
    /\ rendered # NotRendered
    /\ Len(arrays[builders[1].whereConditions]) = 2
    /\ arrays[builders[1].whereConditions][1].operator = "IN"
    /\ arrays[builders[1].whereConditions][2].operator = "="
    /\ builders[1].limitCount # Null /\ builders[1].offsetCount # Null
    /\ rendered.params = <<Num(1), Num(2), Num(1)>>

\* the elements of a list
Elements(list) == {list[i] : i \in 1..Len(list)}

\* the run has computed its pending list
HasPending(r) == runs[r].pc \notin {"idle", "ensure", "getExecuted"} /\ runs[r].k > 0

\* the position of a name in the tracking table
Position(name) == CHOOSE i \in 1..Len(db.names) : db.names[i] = name

\* C16: runAllPending applies migrations in filename sort order: the pending
\* list is the discovered .sql files minus the recorded names, in ascending
\* filename order; the migrations a run has committed, which is the list it
\* returns, are a prefix of that list in that order, and a migration is only
\* started when all migrations before it in the list are committed.
C16_FilenameOrder ==
    \A r \in Runs :
        HasPending(r) =>
            LET pendingList == runs[r].pending
                executed == runs[r].executed
            IN /\ Elements(pendingList)
                     = {f \in dir : endsWith(f, DotSql)} \ Elements(runs[r].seen)
               /\ \A i, j \in 1..Len(pendingList) :
                     i < j => Before(pendingList[i], pendingList[j])
               /\ executed = SubSeq(pendingList, 1, Len(executed))
               /\ runs[r].pc = "resolved" => executed = pendingList
               /\ runs[r].pc # "resolved" => Len(executed) = runs[r].k - 1
               /\ \A i \in 1..Len(executed) : executed[i] \in Elements(db.names)
               /\ \A i, j \in 1..Len(executed) :
                     i < j => Position(executed[i]) < Position(executed[j])

\* C16 witness: the files 2.sql and 10.sql were pending; the run committed
\* 10 and then 2, and returned them in that order.
C16_Witness ==
    /\ runs[1].pc = "resolved"
    /\ runs[1].executed = <<F_10, F_2>>
    /\ db.names = runs[1].executed

\* C17: migration runs are idempotent: a runAllPending called after a run
\* that committed every pending migration, over the same files, executes no
\* migration script, records nothing and returns the empty list.
C17_SecondRunAppliesNothing ==
    /\ [](\A r \in Runs :
             runs[r].afterFullRun =>
                /\ runs[r].pc \in {"ensure", "getExecuted", "resolved", "rejected"}
                /\ runs[r].stmts = <<>> /\ runs[r].acquired = 0
                /\ runs[r].pending = <<>>
                /\ runs[r].pc = "resolved" => runs[r].executed = <<>>)
    /\ [][\A r \in Runs :
             (runs[r].afterFullRun /\ runs'[r] # runs[r]) =>
                /\ db'.names = db.names
                /\ db'.applied = db.applied]_vars

\* C17 witness: the first run committed two migrations, the second run was
\* called after it and returned.
C17_Witness ==
    /\ Len(runs[1].executed) = 2 /\ runs[1].pc = "resolved"
    /\ runs[2].afterFullRun /\ runs[2].pc = "resolved"

\* the statements of the current migration up to and including the first
\* that failed
FailedAt(r) ==
    CHOOSE i \in 1..Len(runs[r].stmts) :
        /\ ~runs[r].stmts[i].ok
        /\ \A j \in 1..(i - 1) : runs[r].stmts[j].ok

\* a statement of the run's current migration other than ROLLBACK has failed
StatementFailed(r) ==
    \E i \in 1..Len(runs[r].stmts) :
        ~runs[r].stmts[i].ok /\ runs[r].stmts[i].sql # "ROLLBACK"

\* another run has committed the migration
CommittedByOther(r, name) == \E o \in Runs \ {r} : name \in Elements(runs[o].executed)

\* C18: when a statement of pending migration k fails during runAllPending,
\* ROLLBACK is issued for migration k, the run rejects at once without
\* attempting a migration after k, migration k is not recorded, and the
\* migrations committed before k stay recorded.
C18_FailureAbortsRun ==
    /\ [](\A r \in Runs :
             (StatementFailed(r) /\ runs[r].pc # "ROLLBACK") =>
                LET stmts == runs[r].stmts
                    failed == Current(r)
                IN /\ runs[r].pc = "rejected"
                   /\ Len(stmts) = FailedAt(r) + 1
                   /\ stmts[Len(stmts)].sql = "ROLLBACK"
                   /\ Len(runs[r].executed) = runs[r].k - 1
                   /\ ~CommittedByOther(r, failed) =>
                         /\ Count(db.names, failed) = 0
                         /\ Count(db.applied, failed) = 0
                   /\ \A j \in 1..(runs[r].k - 1) :
                         Count(db.names, runs[r].pending[j]) = 1)
    /\ [][\A r \in Runs :
             /\ (runs[r].pc = "ROLLBACK" /\ runs'[r] # runs[r]) =>
                   /\ runs'[r].pc = "rejected"
                   /\ runs'[r].stmts = Append(runs[r].stmts,
                                              runs'[r].stmts[Len(runs'[r].stmts)])
                   /\ runs'[r].stmts[Len(runs'[r].stmts)].sql = "ROLLBACK"
                   /\ db' = db
             /\ runs[r].pc = "rejected" => runs'[r] = runs[r]]_vars

\* C18 witness: the first pending migration was committed, the script of the
\* second failed, ROLLBACK was sent and the run rejected.
C18_Witness ==
    /\ runs[1].pc = "rejected" /\ runs[1].k = 2 /\ Len(runs[1].executed) = 1
    /\ runs[1].stmts = <<Sent("BEGIN", TRUE), Sent("script", FALSE),
                         Sent("ROLLBACK", TRUE)>>
    /\ Count(db.names, runs[1].pending[1]) = 1
    /\ Count(db.names, runs[1].pending[2]) = 0

\* C19: once recorded, a migration is never re-applied: under any
\* interleaving of runAllPending executions, two overlapping runs with the
\* same pending list included, no migration is committed more than once,
\* neither its script effects nor its name, so the recorded names stay unique.
C19_NeverReapplied ==
    \A name \in Elements(db.names) \cup Elements(db.applied) :
        /\ Count(db.names, name) <= 1
        /\ Count(db.applied, name) <= 1

\* C19 witness: two runs computed the same pending list; the first committed
\* the migration, the second ran the script, failed on the name INSERT and
\* rolled back.
C19_Witness ==
    /\ runs[1].pending = runs[2].pending /\ runs[1].pending # <<>>
    /\ runs[1].executed # <<>>
    /\ runs[2].pc = "rejected" /\ runs[2].k = 1
    /\ runs[2].stmts = <<Sent("BEGIN", TRUE), Sent("script", TRUE),
                         Sent("INSERT", FALSE), Sent("ROLLBACK", TRUE)>>
    /\ Count(db.applied, runs[2].pending[1]) = 1

\* the order of the statements of runMigration
MigrationStatements == <<"BEGIN", "script", "INSERT", "COMMIT">>

\* C20: each migration is atomic: in every reachable state a migration's name
\* is recorded if and only if the effects of its script are committed;
\* runMigration sends BEGIN, the script body, the name INSERT and COMMIT in
\* that order on one dedicated connection, and a failure of any of them leaves
\* neither the script's effects nor the name committed.
C20_MigrationAtomic ==
    /\ [](/\ \A name \in Elements(db.names) \cup Elements(db.applied) :
                Count(db.names, name) = Count(db.applied, name)
          /\ \A r \in Runs :
                LET stmts == runs[r].stmts IN
                /\ \A i \in 1..Len(stmts) :
                      IF \A j \in 1..(i - 1) : stmts[j].ok
                      THEN i <= 4 /\ stmts[i].sql = MigrationStatements[i]
                      ELSE stmts[i].sql = "ROLLBACK" /\ i = Len(stmts)
                /\ runs[r].acquired - runs[r].released
                      = (IF runs[r].pc \in {"BEGIN", "script", "INSERT", "COMMIT",
                                            "ROLLBACK"} THEN 1 ELSE 0)
                /\ (StatementFailed(r) /\ ~CommittedByOther(r, Current(r))) =>
                      /\ Count(db.names, Current(r)) = 0
                      /\ Count(db.applied, Current(r)) = 0)
    /\ [][\A r \in Runs :
             /\ db' # db =>
                   \/ db'.table # db.table
                   \/ \E c \in Runs :
                        /\ runs[c].pc = "COMMIT" /\ runs'[c].pc # "ROLLBACK"
                        /\ db'.names = Append(db.names, Current(c))
                        /\ db'.applied = Append(db.applied, Current(c))
             /\ Len(runs'[r].stmts) > Len(runs[r].stmts) =>
                   runs[r].acquired = runs[r].released + 1]_vars

\* C20 witness: BEGIN, the script and the INSERT succeeded, COMMIT failed and
\* ROLLBACK was sent: neither the name nor the script's effects are committed.
C20_Witness ==
    /\ runs[1].pc = "rejected" /\ runs[1].k = 1
    /\ runs[1].stmts = <<Sent("BEGIN", TRUE), Sent("script", TRUE),
                         Sent("INSERT", TRUE), Sent("COMMIT", FALSE),
                         Sent("ROLLBACK", TRUE)>>
    /\ Count(db.names, runs[1].pending[1]) = 0
    /\ Count(db.applied, runs[1].pending[1]) = 0

\* a run is inside runMigration's try/catch: it holds a dedicated connection
HoldsClient(r) == runs[r].pc \in {"BEGIN", "script", "INSERT", "COMMIT", "ROLLBACK"}

\* C21: runMigration releases the connection it acquired exactly once on every
\* exit path: while a run is between getClient and the end of the try/catch
\* it holds exactly one unreleased connection, and once runMigration has
\* returned or thrown (after a success, after a failure of BEGIN, the script,
\* the INSERT or COMMIT, and after a failed ROLLBACK) every connection the
\* run acquired has been released once
C21_ReleasedExactlyOnce ==
    \A r \in Runs :
       IF HoldsClient(r)
       THEN runs[r].acquired = runs[r].released + 1
       ELSE runs[r].acquired = runs[r].released

\* a migration failed, the ROLLBACK failed too, and the connection is released
C21_Witness ==
    \E r \in Runs :
       /\ runs[r].pc = "rejected"
       /\ runs[r].stmts # <<>>
       /\ runs[r].stmts[Len(runs[r].stmts)] = Sent("ROLLBACK", FALSE)
       /\ runs[r].acquired = 1
       /\ runs[r].released = 1

\* an adapter.query call of the builder, or of the loader on its behalf, failed
QueryHasFailed ==
    \/ \E i \in 1..Len(adapterLog) : ~adapterLog[i].ok
    \/ relOutcome = "rejected"

\* C22: no retries: every DbAdapter.query call invokes the driver exactly
\* once; a failed call rejects with 'Database query failed: ' followed by the
\* cause's message, or by 'Unknown database error' when the cause is not an
\* Error; exec, first and count reject with that error, and once a query has
\* failed no further query is issued
C22_NoRetryFailurePropagates ==
    /\ [](\A i \in 1..Len(adapterLog) :
            /\ adapterLog[i].driver = 1
            /\ ~adapterLog[i].ok =>
                  /\ adapterLog[i].message =
                        <<QueryFailed,
                          IF adapterLog[i].cause.isError
                          THEN adapterLog[i].cause.message
                          ELSE UnknownDatabaseError>>
                  /\ i = Len(adapterLog)
                  /\ opRes = OpRejected(adapterLog[i].message))
    /\ [](QueryHasFailed /\ opRes.kind # "pending" =>
            /\ opRes.kind = "rejected"
            /\ opRes.message[1] = QueryFailed)
    /\ [][QueryHasFailed => adapterLog' = adapterLog /\ queries' = queries]_vars

\* the driver rejected the query of exec() with a value that is not an Error
\* and exec() rejected; or a relationship query failed and exec() rejected
C22_Witness ==
    /\ opCall.method \in {"exec", "first"}
    /\ opRes.kind = "rejected"
    /\ \/ /\ ~adapterLog[1].ok
          /\ ~adapterLog[1].cause.isError
          /\ opRes.message = <<QueryFailed, UnknownDatabaseError>>
       \/ /\ relOutcome = "rejected"
          /\ Len(queries) = 1

\* C23: insertMany([]) returns an empty list and issues no gateway query;
\* insertMany of a non-empty list issues exactly one query
C23_InsertManyQueries ==
    opCall.method = "insertMany" =>
        IF Len(opCall.dataArray) = 0
        THEN opRes = OpResolved(Arr(<<>>)) /\ adapterLog = <<>>
        ELSE Len(adapterLog) = 1 /\ adapterLog[1].driver = 1

\* insertMany([]) has returned
C23_Witness ==
    /\ opCall.method = "insertMany"
    /\ opCall.dataArray = <<>>
    /\ opRes.kind = "resolved"

\* insertMany of two records has returned two rows
C23_WitnessBatch ==
    /\ opCall.method = "insertMany"
    /\ Len(opCall.dataArray) = 2
    /\ opRes.kind = "resolved"
    /\ Len(opRes.value.v) = 2

\* the statement of a by-id call was answered by the database with no row
NoRowMatched ==
    /\ opCall.method \in {"findById", "updateById", "deleteById"}
    /\ Len(adapterLog) = 1
    /\ adapterLog[1].ok
    /\ adapterLog[1].rows = 0

\* C24: when no row matches the primary key, findById and updateById resolve
\* null and deleteById resolves false, none of them rejects; deleteById
\* resolves true only when the deleted row count is greater than 0
C24_NotFoundIsNotAnError ==
    /\ NoRowMatched =>
          opRes = IF opCall.method = "deleteById"
                  THEN OpResolved(Bool(FALSE)) ELSE OpResolved(Null)
    /\ (opCall.method = "deleteById" /\ opRes = OpResolved(Bool(TRUE))) =>
          adapterLog[1].rows > 0

\* updateById of a row that does not exist has resolved null
C24_Witness ==
    /\ NoRowMatched
    /\ opCall.method = "updateById"
    /\ opRes = OpResolved(Null)

\* findById and deleteById of a row that does not exist have settled
C24_WitnessFind == NoRowMatched /\ opCall.method = "findById"
C24_WitnessDelete == NoRowMatched /\ opCall.method = "deleteById"

\* a name in the external convention: no underscore
UnderscoreFree(name) == \A i \in 1..Len(name) : name[i] # "_"

\* C25: naming conversion round-trips: the storage name of an underscore-free
\* field name is camelToSnake of the name, the same for every rendering of
\* it, and converting the storage name back in transformRow yields the
\* original field name
C25_NamingRoundTrip ==
    UnderscoreFree(fieldName) =>
        /\ namePc \in {"rendered", "read"} =>
              /\ storageName = camelToSnake(fieldName)
              /\ \A other \in FieldNames :
                    (UnderscoreFree(other) /\ camelToSnake(other) = storageName)
                        => other = fieldName
        /\ namePc = "read" => readName = fieldName

\* a name with a capital inside has been rendered and read back
C25_Witness ==
    /\ namePc = "read"
    /\ UnderscoreFree(fieldName)
    /\ \E i \in 2..Len(fieldName) : IsUpper(fieldName[i])
    /\ storageName # fieldName
    /\ readName = fieldName

\* C26: the handle only moves from Active to Completed: isActive starts true,
\* it is false exactly when a COMMIT or a ROLLBACK sent by commit() or
\* rollback() has succeeded, it never becomes true again, and once it is
\* false no call of query, commit or rollback sends a statement
C26_HandleStateMachine ==
    /\ isActive
    /\ [](isActive <=> (NumSucceeded("COMMIT") + NumSucceeded("ROLLBACK") = 0))
    /\ [][~isActive => (~isActive' /\ sent' = sent)]_vars

\* a COMMIT failed and left the handle Active, a ROLLBACK completed it, and
\* the query() called next was refused without sending
C26_Witness ==
    /\ ~isActive
    /\ sent = <<Stmt("COMMIT", FALSE), Stmt("ROLLBACK", TRUE)>>
    /\ calls = 3
    /\ lastOp = "query"
    /\ lastRes = CompletedError(3)

\* builder i is left as it was by a step: its fields, and the contents of its
\* three arrays
SameBuilder(i) ==
    /\ i <= Len(builders')
    /\ builders'[i] = builders[i]
    /\ arrays'[builders[i].whereConditions] = arrays[builders[i].whereConditions]
    /\ arrays'[builders[i].orderByClauses] = arrays[builders[i].orderByClauses]
    /\ arrays'[builders[i].includedRelations] = arrays[builders[i].includedRelations]

\* C27: no public method of QueryBuilder mutates its receiver: after a call
\* of select, where, whereNull, whereNotNull, orderBy, limit, offset, include,
\* setRelationMeta, toSQL, exec, first or count on a builder, its table,
\* projection, predicates, ordering, limit, offset, included relations, model
\* name and relationship registry are the same as before the call
C27_ReceiverUnchanged ==
    [][\A i \in 1..Len(builders) : SameBuilder(i)]_vars

\* every public method but setRelationMeta leaves the builders as they were
ReceiverUnchangedButSetRelationMeta ==
    [][opCall'.method # "setRelationMeta" => \A i \in 1..Len(builders) : SameBuilder(i)]_vars

\* C28: transaction() is all-or-nothing towards its caller, whatever the
\* callback does with the handle: when it has rejected no COMMIT succeeded on
\* its connection, and when it has resolved exactly one COMMIT succeeded and
\* no ROLLBACK was sent
C28_AllOrNothing ==
    Settled =>
        /\ outcome.kind = "rejected" => NumSucceeded("COMMIT") = 0
        /\ outcome.kind = "resolved" =>
              /\ NumSucceeded("COMMIT") = 1
              /\ NumSent("ROLLBACK") = 0

\* the same for callbacks that leave commit() and rollback() to transaction()
AllOrNothingForQueryCallbacks ==
    (Settled /\ used \subseteq {"query"}) =>
        /\ outcome.kind = "rejected" => NumSucceeded("COMMIT") = 0
        /\ outcome.kind = "resolved" =>
              /\ NumSucceeded("COMMIT") = 1
              /\ NumSent("ROLLBACK") = 0

Terminating == {"COMMIT", "ROLLBACK"}

\* C29: under any interleaving of overlapping query(), commit() and rollback()
\* calls on one handle, at most one terminating statement (COMMIT or
\* ROLLBACK) is ever sent on the connection and no statement is sent after a
\* terminating statement: a terminating statement is the last one sent
C29_OneTerminatingStatement ==
    \A i \in 1..Len(sent) : sent[i].sql \in Terminating => i = Len(sent)

\* a terminating statement was followed by another statement while the call
\* that sent it was still awaiting the answer
OverlappingAfterTerminating ==
    \E i \in 1..Len(sent) :
       /\ sent[i].sql \in Terminating
       /\ i < Len(sent)
       /\ \E k \in 1..Len(inflight) : inflight[k].at = i

\* the callback of transaction() was invoked with the handle
HandlePassed == Len(sent) > 0 /\ sent[1] = Stmt("BEGIN", TRUE)

\* C30: when transaction() has settled, resolved or rejected, the handle that
\* was passed to the callback is Completed, so that a handle the callback
\* kept cannot send a statement on the released connection
C30_CompletedWhenSettled ==
    (Settled /\ HandlePassed) => ~isActive

\* transaction() has settled and released the connection after a failed
\* ROLLBACK, and the handle the callback was given is still Active
ActiveAfterRelease ==
    /\ Settled
    /\ HandlePassed
    /\ released = 1
    /\ isActive
    /\ sent[Len(sent)] = Stmt("ROLLBACK", FALSE)

====
